---------------------------- MODULE Spec2Model ----------------------------
(***************************************************************************)
(* Model of the adaptive grid navigation controller of                     *)
(* Tello-Edu-Obstacle-Detection: the grid graph builder, the path planner, *)
(* the five-point direction selector and the run() control loop.           *)
(*                                                                         *)
(* Python floats are IEEE-754 binary64.  The builder uses float            *)
(* coordinates as dictionary keys and tests them with %, so the model      *)
(* carries floats bit-exactly: a float is a sign, an exponent and a        *)
(* 53-bit mantissa, and every operation rounds to nearest, ties to even.   *)
(* TLC's integers are 32 bits wide, so mantissas are little-endian limb    *)
(* sequences (least significant limb first, no zero limb at the top).      *)
(***************************************************************************)
EXTENDS Integers, Sequences, FiniteSets, TLC

Max2(a, b) == IF a >= b THEN a ELSE b
Min2(a, b) == IF a <= b THEN a ELSE b
SetMax(S) == CHOOSE x \in S : \A y \in S : y <= x
SetMin(S) == CHOOSE x \in S : \A y \in S : x <= y

\* the sequence s, held as the list of its elements
AsList(s) == SubSeq(s, 1, Len(s))

(***************************************************************************)
(* Unbounded naturals: little-endian sequences of LimbBits-bit limbs, no   *)
(* zero limb at the top; <<>> is 0.  Bits are numbered from 1 (lowest).    *)
(***************************************************************************)
LimbBits == 14

Base == 2 ^ LimbBits

LLimb(a, i) == IF i >= 1 /\ i <= Len(a) THEN a[i] ELSE 0

LTrim(a) ==
  LET nz == {i \in 1..Len(a) : a[i] # 0}
  IN  IF nz = {} THEN <<>> ELSE SubSeq(a, 1, SetMax(nz))

RECURSIVE LFromNat(_)
LFromNat(n) == IF n = 0 THEN <<>> ELSE <<n % Base>> \o LFromNat(n \div Base)

RECURSIVE LToNat(_)
LToNat(a) == IF a = <<>> THEN 0 ELSE a[1] + Base * LToNat(Tail(a))

LAdd(a, b) ==
  LET n == Max2(Len(a), Len(b)) + 1
      carry[i \in 0..n] ==
        IF i = 0 THEN 0 ELSE (LLimb(a, i) + LLimb(b, i) + carry[i - 1]) \div Base
  IN  LTrim([i \in 1..n |-> (LLimb(a, i) + LLimb(b, i) + carry[i - 1]) % Base])

\* a - b for a >= b
LSub(a, b) ==
  LET n == Len(a)
      borrow[i \in 0..n] ==
        IF i = 0 THEN 0
        ELSE IF LLimb(a, i) - LLimb(b, i) - borrow[i - 1] < 0 THEN 1 ELSE 0
  IN  LTrim([i \in 1..n |-> (LLimb(a, i) - LLimb(b, i) - borrow[i - 1] + Base) % Base])

\* -1, 0 or 1 as a < b, a = b, a > b
LCmp(a, b) ==
  IF Len(a) # Len(b) THEN (IF Len(a) < Len(b) THEN -1 ELSE 1)
  ELSE LET D == {i \in 1..Len(a) : a[i] # b[i]}
       IN  IF D = {} THEN 0 ELSE IF a[SetMax(D)] > b[SetMax(D)] THEN 1 ELSE -1

\* a * 2^k
LShl(a, k) ==
  LET w == k \div LimbBits
      s == k % LimbBits
  IN  LTrim([i \in 1..(Len(a) + w + 1) |->
              ((LLimb(a, i - w) * 2 ^ s) % Base)
              + (LLimb(a, i - w - 1) \div 2 ^ (LimbBits - s))])

\* a \div 2^k
LShr(a, k) ==
  LET w == k \div LimbBits
      s == k % LimbBits
  IN  IF w >= Len(a) THEN <<>>
      ELSE LTrim([i \in 1..(Len(a) - w) |->
                   (LLimb(a, i + w) \div 2 ^ s)
                   + ((LLimb(a, i + w + 1) % 2 ^ s) * 2 ^ (LimbBits - s))])

\* number of bits of a (0 for 0)
LBitLen(a) ==
  IF a = <<>> THEN 0
  ELSE LimbBits * (Len(a) - 1)
       + (CHOOSE k \in 1..LimbBits : 2 ^ (k - 1) <= a[Len(a)] /\ a[Len(a)] < 2 ^ k)

LBit(a, i) ==
  IF i < 1 THEN 0
  ELSE (LLimb(a, ((i - 1) \div LimbBits) + 1) \div 2 ^ ((i - 1) % LimbBits)) % 2

\* whether one of the k lowest bits of a is set
LLowAny(a, k) ==
  \/ \E i \in 1..Min2(k \div LimbBits, Len(a)) : a[i] # 0
  \/ LLimb(a, (k \div LimbBits) + 1) % 2 ^ (k % LimbBits) # 0

\* a * m for one limb m
LMulSmall(a, m) ==
  LET n == Len(a) + 1
      carry[i \in 0..n] ==
        IF i = 0 THEN 0 ELSE (LLimb(a, i) * m + carry[i - 1]) \div Base
  IN  LTrim([i \in 1..n |-> (LLimb(a, i) * m + carry[i - 1]) % Base])

RECURSIVE LMulR(_, _, _)
LMulR(a, b, i) ==
  IF i > Len(b) THEN <<>>
  ELSE LAdd(LShl(LMulSmall(a, b[i]), LimbBits * (i - 1)), LMulR(a, b, i + 1))

LMul(a, b) == LMulR(a, b, 1)

\* Long division, one limb of a at a time from limb i down, with quotient q
\* and remainder r so far.  The top limb of b is at least Base / 2, so the
\* digit guessed from the top two limbs of the running remainder is at most
\* 2 too large.
RECURSIVE LDivR(_, _, _, _, _)

\* the next digit is d
LDivNext(a, b, i, q, r2, d) ==
  LDivR(a, b, i - 1, LTrim(<<d>> \o q), LSub(r2, LMulSmall(b, d)))

\* the guess of the next digit is qhat
LDivDigit(a, b, i, q, r2, qhat) ==
  LDivNext(a, b, i, q, r2,
           IF LCmp(LMulSmall(b, qhat), r2) <= 0 THEN qhat
           ELSE IF LCmp(LMulSmall(b, qhat - 1), r2) <= 0 THEN qhat - 1
           ELSE qhat - 2)

\* the running remainder is r2
LDivStep(a, b, i, q, r2) ==
  LDivDigit(a, b, i, q, r2,
            Min2((LLimb(r2, Len(b) + 1) * Base + LLimb(r2, Len(b))) \div b[Len(b)],
                 Base - 1))

LDivR(a, b, i, q, r) ==
  IF i = 0 \/ Len(q) + Len(r) < 0 THEN [q |-> q, r |-> r]
  ELSE LDivStep(a, b, i, q, LTrim(<<a[i]>> \o r))

\* a \div b and a % b for a b whose top limb is at least Base / 2
LDivNorm(a, b) == LDivR(a, b, Len(a), <<>>, <<>>)

\* the remainder of a * 2^s by b * 2^s, brought back to that of a by b
LDivUnshift(qr, s) == [q |-> qr.q, r |-> LShr(qr.r, s)]

LDivShifted(a, b, s) == LDivUnshift(LDivNorm(LShl(a, s), LShl(b, s)), s)

\* [q |-> a \div b, r |-> a % b] for b # 0
LDivMod(a, b) == LDivShifted(a, b, LimbBits * Len(b) - LBitLen(b))

\* the integer square root of a native t, by bisection of lo..hi
RECURSIVE NatSqrtR(_, _, _)
NatSqrtR(t, lo, hi) ==
  IF lo = hi THEN lo
  ELSE IF ((lo + hi + 1) \div 2) * ((lo + hi + 1) \div 2) <= t
  THEN NatSqrtR(t, (lo + hi + 1) \div 2, hi)
  ELSE NatSqrtR(t, lo, ((lo + hi + 1) \div 2) - 1)

\* Newton's iteration from x >= floor(sqrt(N)) down to floor(sqrt(N))
RECURSIVE LSqrtR(_, _)

\* the iterate after x is y
LSqrtNext(N, x, y) == IF LCmp(y, x) >= 0 THEN x ELSE LSqrtR(N, y)

LSqrtR(N, x) == LSqrtNext(N, x, LShr(LAdd(x, LDivMod(N, x).q), 1))

\* the first guess: the root of the bits of N above the 2 * m lowest, plus one
LSqrtFrom(N, m) ==
  LSqrtR(N, LShl(LFromNat(NatSqrtR(LToNat(LShr(N, 2 * m)), 0, 2 * Base) + 1), m))

\* floor(sqrt(N)); the first guess comes from the top 2 * LimbBits bits
LSqrt(N) ==
  IF N = <<>> THEN <<>>
  ELSE LSqrtFrom(N, Max2(0, (LBitLen(N) - 2 * LimbBits) \div 2))

(***************************************************************************)
(* IEEE-754 binary64.  A float is [sgn, exp, man]: its value is            *)
(* (-1)^sgn * man * 2^exp with man a Prec-bit number whose top bit is 1;   *)
(* zero has the empty mantissa.  The form is unique, so = on records is    *)
(* == on floats (the dictionary-key equality of the builder).              *)
(***************************************************************************)
Prec == 53

FZero == [sgn |-> 0, exp |-> 0, man |-> <<>>]

FIsZero(x) == x.man = <<>>

\* the float nearest to (-1)^sgn * big * 2^exp, ties to even
\* q2 is the rounded mantissa: Prec bits, or Prec + 1 after a carry
FRoundCarry(sgn, q2, exp) ==
  IF LBitLen(q2) > Prec
  THEN [sgn |-> sgn, exp |-> exp + 1, man |-> LShr(q2, 1)]
  ELSE [sgn |-> sgn, exp |-> exp, man |-> q2]

\* q is big without its k lowest bits; it goes up when the dropped bits are
\* more than half, or half with q odd
FRoundDrop(sgn, big, exp, k, q) ==
  FRoundCarry(sgn,
              IF LBit(big, k) = 1 /\ (LLowAny(big, k - 1) \/ LBit(q, 1) = 1)
              THEN LAdd(q, <<1>>) ELSE q,
              exp + k)

\* big has n bits
FRoundBits(sgn, big, exp, n) ==
  IF n <= Prec
  THEN [sgn |-> sgn, exp |-> exp - (Prec - n), man |-> LShl(big, Prec - n)]
  ELSE FRoundDrop(sgn, big, exp, n - Prec, LShr(big, n - Prec))

FRound(sgn, big, exp) ==
  IF big = <<>> THEN FZero ELSE FRoundBits(sgn, big, exp, LBitLen(big))

FFromInt(n) == FRound(IF n < 0 THEN 1 ELSE 0, LFromNat(IF n < 0 THEN -n ELSE n), 0)

FNeg(x) == IF FIsZero(x) THEN x ELSE [x EXCEPT !.sgn = 1 - x.sgn]

FAbs(x) == [x EXCEPT !.sgn = 0]

\* -1, 0 or 1 as |x| < |y|, |x| = |y|, |x| > |y|
FCmpMag(x, y) ==
  IF FIsZero(x) \/ FIsZero(y)
  THEN (IF FIsZero(x) /\ FIsZero(y) THEN 0 ELSE IF FIsZero(x) THEN -1 ELSE 1)
  ELSE IF x.exp # y.exp THEN (IF x.exp < y.exp THEN -1 ELSE 1)
  ELSE LCmp(x.man, y.man)

FCmp(x, y) ==
  IF FIsZero(x) /\ FIsZero(y) THEN 0
  ELSE IF FIsZero(x) THEN (IF y.sgn = 1 THEN 1 ELSE -1)
  ELSE IF FIsZero(y) THEN (IF x.sgn = 1 THEN -1 ELSE 1)
  ELSE IF x.sgn # y.sgn THEN (IF x.sgn = 1 THEN -1 ELSE 1)
  ELSE IF x.sgn = 0 THEN FCmpMag(x, y) ELSE FCmpMag(y, x)

FLt(x, y) == FCmp(x, y) < 0

FLe(x, y) == FCmp(x, y) <= 0

\* the sum of (-1)^sx * A * 2^e and (-1)^sy * B * 2^e
FAddAligned(sx, A, sy, B, e) ==
  IF sx = sy THEN FRound(sx, LAdd(A, B), e)
  ELSE IF LCmp(A, B) = 0 THEN FZero
  ELSE FRound(IF LCmp(A, B) > 0 THEN sx ELSE sy,
              IF LCmp(A, B) > 0 THEN LSub(A, B) ELSE LSub(B, A), e)

FAddAt(x, y, e) ==
  FAddAligned(x.sgn, LShl(x.man, x.exp - e), y.sgn, LShl(y.man, y.exp - e), e)

FAdd(x, y) ==
  IF FIsZero(x) THEN y
  ELSE IF FIsZero(y) THEN x
  ELSE FAddAt(x, y, Min2(x.exp, y.exp))

FSub(x, y) == FAdd(x, FNeg(y))

FMul(x, y) ==
  IF FIsZero(x) \/ FIsZero(y) THEN FZero
  ELSE FRound((x.sgn + y.sgn) % 2, LMul(x.man, y.man), x.exp + y.exp)

\* x / y for y # 0: Prec + 2 quotient bits and a sticky bit for the remainder
\* the float nearest to (-1)^sgn * (qr.q + f) * 2^exp for the f in [0, 1) that
\* is 0 exactly when qr.r is: a sticky bit stands for the fraction
FRoundSticky(sgn, qr, exp) ==
  IF qr.r = <<>> THEN FRound(sgn, qr.q, exp)
  ELSE FRound(sgn, LAdd(LShl(qr.q, 1), <<1>>), exp - 1)

FDiv(x, y) ==
  IF FIsZero(x) THEN FZero
  ELSE FRoundSticky((x.sgn + y.sgn) % 2, LDivMod(LShl(x.man, Prec + 2), y.man),
                    x.exp - y.exp - (Prec + 2))

\* Python's float %: fmod, then moved to the sign of the divisor
\* m is fmod(x, y)
FModSign(m, y) ==
  IF FIsZero(m) THEN FZero
  ELSE IF m.sgn # y.sgn THEN FAdd(m, y)
  ELSE m

FModAt(x, y, e) ==
  FModSign(FRound(x.sgn, LDivMod(LShl(x.man, x.exp - e), LShl(y.man, y.exp - e)).r, e), y)

FMod(x, y) ==
  IF FIsZero(x) THEN FZero ELSE FModAt(x, y, Min2(x.exp, y.exp))

\* math.hypot(x, y): the float nearest to sqrt(x^2 + y^2).  The sum of the
\* squares is exact; it is scaled by an even power of two to 2 * Prec + 4
\* bits or more, and the remainder of the root is a sticky bit.
\* r is floor(sqrt(N))
FRoundRoot(N, r, exp) ==
  FRoundSticky(0, [q |-> r, r |-> LSub(N, LMul(r, r))], exp)

FSqrtOf(N, exp) == FRoundRoot(N, LSqrt(N), exp)

\* sqrt(S * 2^(2 * e)) with S scaled by 2^(2 * k)
FSqrtScaled(S, e, k) == FSqrtOf(LShl(S, 2 * k), e - k)

FHypotSum(S, e) == FSqrtScaled(S, e, (Max2(0, 2 * Prec + 4 - LBitLen(S)) + 1) \div 2)

FHypotAligned(A, B, e) == FHypotSum(LAdd(LMul(A, A), LMul(B, B)), e)

FHypotAt(x, y, e) == FHypotAligned(LShl(x.man, x.exp - e), LShl(y.man, y.exp - e), e)

FHypot(x, y) ==
  IF FIsZero(x) THEN FAbs(y)
  ELSE IF FIsZero(y) THEN FAbs(x)
  ELSE FHypotAt(x, y, Min2(x.exp, y.exp))

\* the integer part of |x| and whether the dropped fraction rounds it up
\* q is the mantissa of x without its k = -x.exp lowest bits
FIntPartOf(x, k, q) ==
  [q |-> LToNat(q),
   up |-> LBit(x.man, k) = 1 /\ (LLowAny(x.man, k - 1) \/ LBit(q, 1) = 1)]

FIntPart(x) ==
  IF FIsZero(x) THEN [q |-> 0, up |-> FALSE]
  ELSE IF x.exp >= 0 THEN [q |-> LToNat(LShl(x.man, x.exp)), up |-> FALSE]
  ELSE FIntPartOf(x, -x.exp, LShr(x.man, -x.exp))

Signed(sgn, n) == IF sgn = 1 THEN -n ELSE n

PyRoundOf(sgn, p) == Signed(sgn, p.q + (IF p.up THEN 1 ELSE 0))

\* Python's round(x): nearest integer, ties to even
PyRound(x) == PyRoundOf(x.sgn, FIntPart(x))

\* Python's int(x): truncation toward zero
PyInt(x) == Signed(x.sgn, FIntPart(x).q)

\* the float a decimal literal n/d denotes (the nearest to the quotient)
FFromRatio(n, d) == FDiv(FFromInt(n), FFromInt(d))

FHalf == FFromRatio(1, 2)

\* the literal 1e-6
FTol == FFromRatio(1, 1000000)

FTwo == FFromInt(2)

(***************************************************************************)
(* Python dictionaries keep insertion order: a dictionary is the sequence  *)
(* of its [key, val] entries.  Storing under a key already present keeps   *)
(* the entry's place and replaces its value.                               *)
(***************************************************************************)
DictHas(d, k) == \E t \in 1..Len(d) : d[t].key = k

DictGet(d, k) == d[CHOOSE t \in 1..Len(d) : d[t].key = k].val

\* the dictionary after  d[ins[t]] = t - 1  for t = 1, 2, ... in turn
DictOfInsertions(ins) ==
  LET firsts == {t \in 1..Len(ins) : \A u \in 1..(t - 1) : ins[u] # ins[t]}
      place(r) == CHOOSE t \in firsts : Cardinality({u \in firsts : u <= t}) = r
      last(k) == SetMax({u \in 1..Len(ins) : ins[u] = k})
  IN  AsList([r \in 1..Cardinality(firsts) |->
                [key |-> ins[place(r)], val |-> last(ins[place(r)]) - 1]])

(***************************************************************************)
(* build_grid_x_graph(width, length, spacing) on floats.  The result is    *)
(* [ok |-> FALSE, err] when the call raises, and otherwise                 *)
(* [ok |-> TRUE, nodes, G] with nodes the coordinate -> index dictionary   *)
(* and G = [ids, coord, edges, wt, adj]: the node ids, their 'coord'       *)
(* attribute, the edges as two-element (or, for a loop, one-element) sets  *)
(* of ids, the 'weight' of each edge and the adjacency lists.              *)
(***************************************************************************)
\* the error is swallowed and the call returns
GridErrReturned(e) == [ok |-> TRUE, err |-> e]

GridErr(e) == [ok |-> FALSE, err |-> e]

\* the neighbours of n in the order in which add_edge first joined them to n
AdjOf(calls, n) ==
  LET mine == SelectSeq(calls, LAMBDA c : c.u = n \/ c.v = n)
      other(c) == IF c.u = n THEN c.v ELSE c.u
      firsts == {t \in 1..Len(mine) : \A u \in 1..(t - 1) : other(mine[u]) # other(mine[t])}
  IN  [r \in 1..Cardinality(firsts) |->
         other(mine[CHOOSE t \in firsts : Cardinality({u \in firsts : u <= t}) = r])]

\* G.add_node(idx, coord = coord) for each entry of nodes, then
\* G.add_edge(u, v, weight = w) for each call of the sequence
GraphOfCalls(nodes, calls) ==
  LET ids == {nodes[t].val : t \in 1..Len(nodes)}
      E == {{calls[c].u, calls[c].v} : c \in 1..Len(calls)}
      lastCall(e) == SetMax({c \in 1..Len(calls) : {calls[c].u, calls[c].v} = e})
  IN  [ids |-> ids,
       coord |-> [n \in ids |->
                    nodes[SetMax({t \in 1..Len(nodes) : nodes[t].val = n})].key],
       edges |-> E,
       wt |-> [e \in E |-> calls[lastCall(e)].w],
       adj |-> [n \in ids |-> AdjOf(calls, n)]]

\* 1. grid corners:  x = -actual_width / 2 + i * dx,  y = j * dy
CornerKey(left, spacing, i, j) ==
  <<FAdd(left, FMul(FFromInt(i), spacing)), FMul(FFromInt(j), spacing)>>

\* the center of a cell stored at the first corner of the cell
CenterKeyAtCorner(left, spacing, i, j) ==
  <<FAdd(left, FMul(FFromInt(i), spacing)), FMul(FFromInt(j), spacing)>>

\* 2. cell centers:  cx = -actual_width / 2 + (i + 0.5) * dx,  cy = (j + 0.5) * dy
CenterKey(left, spacing, i, j) ==
  <<FAdd(left, FMul(FAdd(FFromInt(i), FHalf), spacing)),
    FMul(FAdd(FFromInt(j), FHalf), spacing)>>

\* the keys in the order the two loops store them
GridKeys(Nx, Ny, left, spacing) ==
  AsList([t \in 1..((Nx + 1) * (Ny + 1) + Nx * Ny) |->
     IF t <= (Nx + 1) * (Ny + 1)
     THEN CornerKey(left, spacing, (t - 1) \div (Ny + 1), (t - 1) % (Ny + 1))
     ELSE CenterKey(left, spacing, (t - (Nx + 1) * (Ny + 1) - 1) \div Ny,
                                   (t - (Nx + 1) * (Ny + 1) - 1) % Ny)])

\* 3. corner k of cell (i, j) in the order (x0,y0), (x1,y0), (x1,y1), (x0,y1),
\* with x0 = -actual_width / 2 + i * dx, x1 = x0 + dx, y0 = j * dy, y1 = y0 + dy
CellCorner(left, spacing, i, j, k) ==
  <<IF k \in {2, 3} THEN FAdd(FAdd(left, FMul(FFromInt(i), spacing)), spacing)
                    ELSE FAdd(left, FMul(FFromInt(i), spacing)),
    IF k \in {3, 4} THEN FAdd(FMul(FFromInt(j), spacing), spacing)
                    ELSE FMul(FFromInt(j), spacing)>>

\* the loop of step 3 skips the last cell
NumSpokesShort(Nx, Ny) == 4 * (Nx * Ny - 1)

\* the add_edge calls of step 3: four for each of the Nx * Ny cells
NumSpokes(Nx, Ny) == 4 * (Nx * Ny)

\* the center and the corner of the t-th of them
Spokes(Nx, Ny, left, spacing) ==
  AsList([t \in 1..NumSpokes(Nx, Ny) |->
     [center |-> CenterKey(left, spacing, ((t - 1) \div 4) \div Ny, ((t - 1) \div 4) % Ny),
      corner |-> CellCorner(left, spacing, ((t - 1) \div 4) \div Ny,
                            ((t - 1) \div 4) % Ny, ((t - 1) % 4) + 1)]])

\* w = math.hypot(corner[0] - center[0], corner[1] - center[1])
SpokeCalls(nodes, spokes) ==
  AsList([t \in 1..Len(spokes) |->
     [u |-> DictGet(nodes, spokes[t].center),
      v |-> DictGet(nodes, spokes[t].corner),
      w |-> FHypot(FSub(spokes[t].corner[1], spokes[t].center[1]),
                   FSub(spokes[t].corner[2], spokes[t].center[2]))]])

\* 4. "only if this is a corner (multiples of spacing)"
IsCorner(xy, halfWidth, spacing) ==
  /\ FLt(FAbs(FMod(FAdd(xy[1], halfWidth), spacing)), FTol)
  /\ FLt(FAbs(FMod(xy[2], spacing)), FTol)

\* the north-east neighbour in place of the east one
NbrDiagonal(xy, o, spacing) ==
  IF o = 1 THEN <<FAdd(xy[1], spacing), FAdd(xy[2], spacing)>>
           ELSE <<xy[1], FAdd(xy[2], spacing)>>

\* the east (o = 1) and the north (o = 2) neighbour
Nbr(xy, o, spacing) ==
  IF o = 1 THEN <<FAdd(xy[1], spacing), xy[2]>> ELSE <<xy[1], FAdd(xy[2], spacing)>>

\* the <<entry, offset>> pairs for which step 4 adds an edge
GridEdgeIdx(nodes, halfWidth, spacing) ==
  {p \in (1..Len(nodes)) \X {1, 2} :
     /\ IsCorner(nodes[p[1]].key, halfWidth, spacing)
     /\ DictHas(nodes, Nbr(nodes[p[1]].key, p[2], spacing))}

\* the pairs of idx in loop order
InLoopOrder(idx) ==
  AsList([r \in 1..Cardinality(idx) |->
     CHOOSE p \in idx :
       Cardinality({q \in idx : q[1] < p[1] \/ (q[1] = p[1] /\ q[2] <= p[2])}) = r])

\* w = math.hypot(dx_off, dy_off)
GridCalls(nodes, order, spacing) ==
  AsList([r \in 1..Len(order) |->
     [u |-> nodes[order[r][1]].val,
      v |-> DictGet(nodes, Nbr(nodes[order[r][1]].key, order[r][2], spacing)),
      w |-> IF order[r][2] = 1 THEN FHypot(spacing, FZero) ELSE FHypot(FZero, spacing)]])

\* steps 3 and 4 on the filled dictionary; nodes[corner] raises KeyError
Connect(nodes, spokes, halfWidth, spacing) ==
  IF \E t \in 1..Len(spokes) : ~DictHas(nodes, spokes[t].corner)
  THEN GridErr("KeyError")
  ELSE [ok |-> TRUE, nodes |-> nodes,
        G |-> GraphOfCalls(nodes,
                SpokeCalls(nodes, spokes)
                \o GridCalls(nodes, InLoopOrder(GridEdgeIdx(nodes, halfWidth, spacing)),
                             spacing))]

\* the body for grid sizes Nx, Ny >= 1; left is -actual_width / 2
BuildGridBody(Nx, Ny, left, spacing) ==
  Connect(DictOfInsertions(GridKeys(Nx, Ny, left, spacing)),
          Spokes(Nx, Ny, left, spacing),
          FDiv(FMul(FFromInt(Nx), spacing), FTwo),
          spacing)

\* an argument that is a str is [str |-> its text]; x <= 0 raises on it
IsStr(x) == "str" \in DOMAIN x

build_grid_x_graph(width, length, spacing) ==
  IF IsStr(spacing) THEN GridErr("TypeError")
  ELSE IF FLe(spacing, FZero) THEN GridErr("ValueError")
  ELSE IF IsStr(width) THEN GridErr("TypeError")
  ELSE IF FLe(width, FZero) THEN GridErr("ValueError")
  ELSE IF IsStr(length) THEN GridErr("TypeError")
  ELSE IF FLe(length, FZero) THEN GridErr("ValueError")
  ELSE LET Nx == PyRound(FDiv(width, spacing))
           Ny == PyRound(FDiv(length, spacing))
       IN  IF Nx < 1 \/ Ny < 1 THEN GridErr("ValueError")
           ELSE BuildGridBody(Nx, Ny, FDiv(FNeg(FMul(FFromInt(Nx), spacing)), FTwo), spacing)

(***************************************************************************)
(* choose_safe_direction(depth_map, threshold) with the default sample      *)
(* offsets.  A depth frame is [h, w, bg, pix]: h rows and w columns, the    *)
(* depth pix[<<y, x>>] at the pixels in the domain of pix and bg at the     *)
(* others.  Depths and thresholds are whole numbers of some unit.  The      *)
(* result is [dir, status].                                                 *)
(***************************************************************************)
CENTER == "center"
UP == "top"
RIGHT == "right"
LEFT == "left"
DOWN == "bottom"
BLOCK == "block"

\* the keys of sample_offsets in the order of the dictionary
SampleNames == <<"left", "center", "right", "top", "bottom">>

FOffset == FFromRatio(3, 10)

\* sample_offsets[name] as <<ox, oy>>
SampleOffset(name) ==
  CASE name = "left" -> <<FNeg(FOffset), FZero>>
    [] name = "center" -> <<FZero, FZero>>
    [] name = "right" -> <<FOffset, FZero>>
    [] name = "top" -> <<FZero, FNeg(FOffset)>>
    [] name = "bottom" -> <<FZero, FOffset>>

\* np.clip(v, lo, hi)
FClip(v, lo, hi) == IF FLt(v, lo) THEN lo ELSE IF FLt(hi, v) THEN hi ELSE v

\* int(np.clip((o * 0.5 + 0.5) * (n - 1), 0, n - 1)) for one axis of n pixels
PixelOnAxis(o, n) ==
  PyInt(FClip(FMul(FAdd(FMul(o, FHalf), FHalf), FFromInt(n - 1)),
              FZero, FFromInt(n - 1)))

\* to_pixel(offset) = <<px, py>>
to_pixel(offset, h, w) == <<PixelOnAxis(offset[1], w), PixelOnAxis(offset[2], h)>>

\* depth_map[x, y]: the row and the column exchanged
DepthAtTransposed(depth_map, y, x) ==
  IF <<x, y>> \in DOMAIN depth_map.pix THEN depth_map.pix[<<x, y>>] ELSE depth_map.bg

\* depth_map[y, x]
DepthAt(depth_map, y, x) ==
  IF <<y, x>> \in DOMAIN depth_map.pix THEN depth_map.pix[<<y, x>>] ELSE depth_map.bg

\* status[name] = depth_value > threshold
SampleStatusStrict(depth_map, threshold) ==
  [name \in {SampleNames[t] : t \in 1..Len(SampleNames)} |->
     \E xy \in {to_pixel(SampleOffset(name), depth_map.h, depth_map.w)} :
       DepthAt(depth_map, xy[2], xy[1]) > threshold]

\* x, y = to_pixel(offset); status[name] = depth_map[y, x] >= threshold
SampleStatus(depth_map, threshold) ==
  [name \in {SampleNames[t] : t \in 1..Len(SampleNames)} |->
     \E xy \in {to_pixel(SampleOffset(name), depth_map.h, depth_map.w)} :
       DepthAt(depth_map, xy[2], xy[1]) >= threshold]

\* clear = [d for d, ok in status.items() if ok]
ClearList(status) ==
  SelectSeq(SampleNames, LAMBDA d : status[d])

\* the mapping of rule 2 with left and right exchanged
SoleMappingSwapped(sole) ==
  CASE sole = "center" -> CENTER
    [] sole = "top" -> UP
    [] sole = "right" -> LEFT
    [] sole = "left" -> RIGHT
    [] sole = "bottom" -> DOWN
    [] OTHER -> BLOCK

\* mapping.get(sole, Direction.BLOCK)
SoleMapping(sole) ==
  CASE sole = "center" -> CENTER
    [] sole = "top" -> UP
    [] sole = "right" -> RIGHT
    [] sole = "left" -> LEFT
    [] sole = "bottom" -> DOWN
    [] OTHER -> BLOCK

\* rule 5 with left tried before right
FallbackLeftFirst(status) ==
  IF status["center"] THEN CENTER
  ELSE IF status["top"] THEN UP
  ELSE IF status["left"] THEN LEFT
  ELSE IF status["right"] THEN RIGHT
  ELSE IF status["bottom"] THEN DOWN
  ELSE BLOCK

\* 5. fallback by priority, and BLOCK after it
Fallback(status) ==
  IF status["center"] THEN CENTER
  ELSE IF status["top"] THEN UP
  ELSE IF status["right"] THEN RIGHT
  ELSE IF status["left"] THEN LEFT
  ELSE IF status["bottom"] THEN DOWN
  ELSE BLOCK

\* rules 1 to 5 on the status of the samples
DirectionOf(status) ==
  IF status["center"] THEN CENTER
  ELSE IF Len(ClearList(status)) = 1 THEN SoleMapping(ClearList(status)[1])
  ELSE IF ~status["center"] /\ \A o \in {"left", "right", "top", "bottom"} : status[o]
  THEN UP
  ELSE IF ~status["top"] /\ ~status["center"] /\ ~status["bottom"] THEN RIGHT
  ELSE Fallback(status)

\* the pair the function returns
Verdict(status) == [status |-> status, dir |-> DirectionOf(status)]

choose_safe_direction(depth_map, threshold) ==
  Verdict(SampleStatus(depth_map, threshold))

(***************************************************************************)
(* find_path(G, nodes, start, goal, depth_map, depth_threshold).  Points   *)
(* are pairs of floats; depth_map = None is NoDepth.  nx.astar_path is the *)
(* search of networkx: a heap of (priority, counter, node, dist, parent)   *)
(* entries, here a list kept in the order in which the heap pops them.     *)
(* The result is [ok |-> TRUE, path] or [ok |-> FALSE, err].               *)
(***************************************************************************)
NoDepth == [h |-> 0, w |-> 0, bg |-> 0, pix |-> <<>>]

\* the parent of the source
NoParent == -1

\* euclidean(a, b) = math.hypot(a[0] - b[0], a[1] - b[1])
euclidean(a, b) == FHypot(FSub(a[1], b[1]), FSub(a[2], b[2]))

\* min keeps the last of the smallest keys
LastMinimum(keys) ==
  CHOOSE t \in 1..Len(keys) :
    /\ \A u \in 1..Len(keys) : ~FLt(keys[u], keys[t])
    /\ \A u \in (t + 1)..Len(keys) : FLt(keys[t], keys[u])

\* min(..., key = ...) keeps the first of the smallest keys
FirstMinimum(keys) ==
  CHOOSE t \in 1..Len(keys) :
    /\ \A u \in 1..Len(keys) : ~FLt(keys[u], keys[t])
    /\ \A u \in 1..(t - 1) : FLt(keys[t], keys[u])

\* min(nodes.values(), key = lambda i: euclidean(G.nodes[i]['coord'], p))
Snap(G, nodes, p) ==
  nodes[FirstMinimum(AsList([t \in 1..Len(nodes) |->
                               euclidean(G.coord[nodes[t].val], p)]))].val

\* push onto the heap regardless of the priority: last in, first out
PushFirst(queue, e) == <<e>> \o queue

\* heappush: e has the largest counter, so it is popped after the entries
\* whose priority is at most its own
Push(queue, e) ==
  SubSeq(queue, 1, Cardinality({t \in 1..Len(queue) : FLe(queue[t].f, e.f)}))
  \o <<e>>
  \o SubSeq(queue, Cardinality({t \in 1..Len(queue) : FLe(queue[t].f, e.f)}) + 1,
            Len(queue))

\* enqueued[neighbor] = ncost, h; push (ncost + h, next(c), neighbor, ncost, curnode)
Enqueue(st, nb, parent, ncost, h) ==
  [queue |-> Push(st.queue, [f |-> FAdd(ncost, h), c |-> st.cnt, node |-> nb,
                              dist |-> ncost, parent |-> parent]),
   enq |-> (nb :> [cost |-> ncost, h |-> h]) @@ st.enq,
   expl |-> st.expl,
   cnt |-> st.cnt + 1]

\* the body of the loop over the neighbours, for ncost = dist + cost
RelaxCost(G, target, top, nb, st, ncost) ==
  IF nb \in DOMAIN st.enq /\ FLe(st.enq[nb].cost, ncost) THEN st
  ELSE Enqueue(st, nb, top.node, ncost,
               IF nb \in DOMAIN st.enq THEN st.enq[nb].h
               ELSE euclidean(G.coord[nb], G.coord[target]))

\* for neighbor, w in G[curnode].items(), from the i-th neighbour on
RECURSIVE Relax(_, _, _, _, _, _)
Relax(G, target, top, nbrs, i, st) ==
  IF i > Len(nbrs) \/ st.cnt < 0 THEN st
  ELSE Relax(G, target, top, nbrs, i + 1,
             RelaxCost(G, target, top, nbrs[i], st,
                       FAdd(top.dist, G.wt[{top.node, nbrs[i]}])))

\* the path from the source to n's child, of which acc is the rest
RECURSIVE PathBack(_, _, _)
PathBack(expl, n, acc) ==
  IF n = NoParent THEN acc ELSE PathBack(expl, expl[n], <<n>> \o acc)

RECURSIVE AStarLoop(_, _, _)

\* top has been popped from the heap
AStarPop(G, target, top, st) ==
  IF top.node = target
  THEN [ok |-> TRUE, path |-> PathBack(st.expl, top.parent, <<top.node>>)]
  ELSE IF /\ top.node \in DOMAIN st.expl
          /\ \/ st.expl[top.node] = NoParent
             \/ FLt(st.enq[top.node].cost, top.dist)
  THEN AStarLoop(G, target, st)
  ELSE AStarLoop(G, target,
                 Relax(G, target, top, G.adj[top.node], 1,
                       [st EXCEPT !.expl = (top.node :> top.parent) @@ @]))

\* the heap is empty and an empty path is returned
UnreachableEmpty == [ok |-> TRUE, path |-> <<>>]

\* raise nx.NetworkXNoPath
Unreachable == [ok |-> FALSE, err |-> "NetworkXNoPath"]

\* while queue
AStarLoop(G, target, st) ==
  IF st.queue = <<>> THEN Unreachable
  ELSE AStarPop(G, target, Head(st.queue), [st EXCEPT !.queue = Tail(@)])

\* nx.astar_path(G, source, target, heuristic = euclidean, weight = 'weight')
astar_path(G, source, target) ==
  AStarLoop(G, target,
            [queue |-> <<[f |-> FZero, c |-> 0, node |-> source, dist |-> FZero,
                          parent |-> NoParent]>>,
             enq |-> <<>>, expl |-> <<>>, cnt |-> 1])

\* the facing node is pruned only when no sample is clear
PruneTestBlock(v) == v.dir = BLOCK

\* the test that prunes the facing node
PruneTest(v) == ~v.status["center"] /\ v.dir # CENTER

\* path[1:] when a depth frame is given and the center is blocked
Pruned(path, depth_map, depth_threshold) ==
  IF /\ depth_map # NoDepth
     /\ Len(path) >= 1
     /\ PruneTest(choose_safe_direction(depth_map, depth_threshold))
  THEN Tail(path) ELSE path

\* path = [G.nodes[i]['coord'] for i in path_idxs], then the pruning
Waypoints(G, res, depth_map, depth_threshold) ==
  IF ~res.ok THEN res
  ELSE [ok |-> TRUE,
        path |-> Pruned(AsList([i \in 1..Len(res.path) |-> G.coord[res.path[i]]]),
                        depth_map, depth_threshold)]

find_path(G, nodes, start, goal, depth_map, depth_threshold) ==
  Waypoints(G, astar_path(G, Snap(G, nodes, start), Snap(G, nodes, goal)),
            depth_map, depth_threshold)

(***************************************************************************)
(* State.  Each part of the program has its own variables and its own      *)
(* specification; a specification leaves the other parts idle.             *)
(***************************************************************************)
VARIABLES
  gpc,        \* build_grid_x_graph: "call" before the call, "done" after it
  width,      \* its arguments (floats)
  length,
  spacing,
  built,      \* what the call returned or raised
  dpc,        \* choose_safe_direction: "call" before the call, "done" after it
  depth_map,  \* its arguments
  threshold,
  verdict,    \* what the call returned
  ppc,        \* find_path: "call" before the call, "done" after it
  start,      \* its arguments, with the graph in built and the depth frame
  goal,       \* and threshold in depth_map and threshold
  found,      \* what the call returned or raised
  rpc,        \* run(): the place it has reached
  path,       \* its waypoints still to reach
  current_pos,
  heading,
  altitude,   \* ALTITUDE before the take-off
  next_wp,
  chosen,     \* the direction and status of the frame read last
  calls,      \* the drone commands and fetch requests it has made, in order
  depth_stop_event,
  lock,       \* output_pipeline: who holds _lock, or "free"
  latest_depth,      \* _latest_depth: an array or NoArray
  latest_timestamp,  \* _latest_timestamp
  latest_meta,       \* _latest_meta
  arrays,     \* the content of every array
  now,        \* time.time()
  fetcher,    \* the place and the locals of each caller of fetch_depth_once
  reader,     \* the place and the locals of the caller of the two getters
  notified,   \* the subscriber callbacks made, in order
  fetches,    \* the number of calls of fetch_depth_once so far
  tpc,        \* rotate_toward: "call" before the call, "done" after it
  turn,       \* its arguments: the target, the position and the heading
  turned,     \* the heading it returned and the commands it gave the drone
  epc,        \* execute_simple_route: the place it has reached
  route,      \* its locals path, i, position and heading
  drone,      \* the commands it gave the drone in its last step
  spc,        \* safe_direction: "call" before the call, "done" after it
  scan,       \* its arguments, min_free in hundredths
  safe,       \* the direction it returned
  cpc,        \* safe_depth_capture: the place it has reached
  shot        \* max_retries, attempt, the calls made so far and the result

gridVars == <<gpc, width, length, spacing, built>>

dirVars == <<dpc, depth_map, threshold, verdict>>

pathVars == <<ppc, start, goal, found>>

runVars ==
  <<rpc, path, current_pos, heading, altitude, next_wp, chosen, calls,
    depth_stop_event>>

depthVars ==
  <<lock, latest_depth, latest_timestamp, latest_meta, arrays, now, fetcher,
    reader, notified, fetches>>

turnVars == <<tpc, turn, turned>>

routeVars == <<epc, route, drone>>

sectorVars == <<spc, scan, safe>>

captureVars == <<cpc, shot>>

navVars == <<turnVars, routeVars, sectorVars, captureVars>>

vars == <<gridVars, dirVars, pathVars, runVars, depthVars, navVars>>

\* Arguments are decimal literals with one decimal place, in tenths.
MinSpacing10 == 3
MaxSpacing10 == 5
MaxDim10 == 9

NoGrid == GridErr("not called")

GridIdle ==
  /\ gpc = "idle"
  /\ width = FZero /\ length = FZero /\ spacing = FZero
  /\ built = NoGrid

\* Frames have 1 to MaxDim rows and columns; every depth is the threshold or
\* one less than it.
MaxDim == 6
MaxThreshold == 2

NoFrame == NoDepth

NoVerdict == [dir |-> "not called", status |-> <<>>]

DirIdle ==
  /\ dpc = "idle"
  /\ depth_map = NoFrame
  /\ threshold = 0
  /\ verdict = NoVerdict

\* No sample lies farther from the middle of its axis than 0.15 * (n - 1)
\* rounded up.
Reach(n) == (3 * (n - 1) + 19) \div 20

\* the pixels of the middle row and the middle column within that distance
Cross(h, w) ==
  {<<(h - 1) \div 2, x>> :
     x \in {x \in 0..(w - 1) : x >= (w - 1) \div 2 - Reach(w) /\ x <= (w - 1) \div 2 + Reach(w)}}
  \cup
  {<<y, (w - 1) \div 2>> :
     y \in {y \in 0..(h - 1) : y >= (h - 1) \div 2 - Reach(h) /\ y <= (h - 1) \div 2 + Reach(h)}}

\* the frames of h rows and w columns that are uniform off the cross
Frames(h, w, depths) ==
  {[h |-> h, w |-> w, bg |-> b, pix |-> f] : b \in depths, f \in [Cross(h, w) -> depths]}

NoPath == [ok |-> FALSE, err |-> "not called"]

PathIdle ==
  /\ ppc = "idle"
  /\ start = <<FZero, FZero>> /\ goal = <<FZero, FZero>>
  /\ found = NoPath

(***************************************************************************)
(* The depth cache of output_pipeline.py.  The background fetcher and the  *)
(* controller call fetch_depth_once, a reader calls get_latest_depth and   *)
(* get_depth_age, and every access to a global is a step of its own.  An   *)
(* array is a slot of arrays: the k-th fetch loads its frame into slot k,  *)
(* and the copy get_latest_depth returns is in the slot Returned.  The     *)
(* field by of an array, of the timestamp and of the metadata names the    *)
(* fetch that wrote it.  The clock counts seconds.                         *)
(***************************************************************************)
\* fetch_depth_once is called at most MaxFetches times, and the clock stops
\* at MaxTime.
MaxFetches == 2

MaxTime == 2

MAX_DEPTH_AGE == 1

Fetchers == {"background", "controller"}

\* _subscribers
Subscribers == <<"first", "second">>

\* _latest_depth = None
NoArray == 0

Returned == MaxFetches + 1

Unloaded == [frame |-> 0, by |-> 0]

\* the content of an array after its holder has changed it
Scribbled == -1

\* _latest_timestamp = 0.0 and _latest_meta = {}
NoTimestamp == [t |-> 0, by |-> 0]

NoMeta == [fetched_at |-> 0, by |-> 0]

FetcherIdle == [pc |-> "idle", k |-> 0, depth_map |-> NoArray, i |-> 0, ret |-> "none"]

ReaderIdle ==
  [pc |-> "idle", op |-> "none", max_age |-> 0, depth |-> NoArray,
   ts |-> NoTimestamp, at |-> 0, result |-> [kind |-> "none"]]

\* the module as imported
CacheEmpty ==
  /\ lock = "free"
  /\ latest_depth = NoArray
  /\ latest_timestamp = NoTimestamp
  /\ latest_meta = NoMeta
  /\ arrays = [a \in 1..Returned |-> Unloaded]
  /\ now = 0
  /\ fetcher = [p \in Fetchers |-> FetcherIdle]
  /\ reader = ReaderIdle
  /\ notified = <<>>
  /\ fetches = 0

\* the position and the heading run() starts from
Origin == <<FZero, FZero>>

North == <<FZero, FFromInt(1)>>

RunIdle ==
  /\ rpc = "idle"
  /\ path = <<>>
  /\ current_pos = Origin /\ heading = North /\ altitude = FZero
  /\ next_wp = Origin
  /\ chosen = NoVerdict
  /\ calls = <<>>
  /\ depth_stop_event = FALSE

TurnIdle ==
  /\ tpc = "idle"
  /\ turn = [target |-> Origin, pos |-> Origin, heading |-> FZero]
  /\ turned = [heading |-> FZero, ops |-> <<>>]

NoRoute == [path |-> <<>>, i |-> 0, position |-> Origin, heading |-> FZero, shifts |-> 0]

RouteIdle ==
  /\ epc = "idle"
  /\ route = NoRoute
  /\ drone = <<>>

SectorIdle ==
  /\ spc = "idle"
  /\ scan = [depth_norm |-> NoFrame, near_thresh |-> 0, min_free |-> 0]
  /\ safe = "not called"

\* what a call returned: nothing yet, None, or the tuple (rgb, depth)
NotReturned == [kind |-> "not returned", rgb |-> "None", depth |-> "None"]

NoShot == [max_retries |-> 0, attempt |-> 0, log |-> <<>>, ret |-> NotReturned]

CaptureIdle ==
  /\ cpc = "idle"
  /\ shot = NoShot

NavIdle == TurnIdle /\ RouteIdle /\ SectorIdle /\ CaptureIdle

DirInit ==
  /\ GridIdle /\ PathIdle /\ RunIdle /\ CacheEmpty /\ NavIdle
  /\ dpc = "call"
  /\ threshold \in 1..MaxThreshold
  /\ \E h \in 1..MaxDim, w \in 1..MaxDim :
       depth_map \in Frames(h, w, {threshold - 1, threshold})
  /\ verdict = NoVerdict

Choose ==
  /\ dpc = "call"
  /\ verdict' = choose_safe_direction(depth_map, threshold)
  /\ dpc' = "done"
  /\ UNCHANGED <<depth_map, threshold, gridVars, pathVars, runVars, depthVars, navVars>>

SpecDir == DirInit /\ [][Choose]_vars

\* the float of the literal n / 10 or -(-n / 10)
FTenths(n) == IF n < 0 THEN FNeg(FFromRatio(-n, 10)) ELSE FFromRatio(n, 10)

GridInit ==
  /\ DirIdle /\ PathIdle /\ RunIdle /\ CacheEmpty /\ NavIdle
  /\ gpc = "call"
  /\ \E w \in 1..MaxDim10 : width = FFromRatio(w, 10)
  /\ \E l \in 1..MaxDim10 : length = FFromRatio(l, 10)
  /\ \E s \in MinSpacing10..MaxSpacing10 : spacing = FFromRatio(s, 10)
  /\ built = NoGrid

Build ==
  /\ gpc = "call"
  /\ built' = build_grid_x_graph(width, length, spacing)
  /\ gpc' = "done"
  /\ UNCHANGED <<width, length, spacing, dirVars, pathVars, runVars, depthVars, navVars>>

SpecGrid == GridInit /\ [][Build]_vars

\* Arguments that need not be valid: a negative number, zero, the spacings
\* of SpecGrid and a str.
NotANumber == [str |-> "5"]

Arguments == {FTenths(v) : v \in {-1, 0} \cup MinSpacing10..MaxSpacing10} \cup {NotANumber}

ArgsInit ==
  /\ DirIdle /\ PathIdle /\ RunIdle /\ CacheEmpty /\ NavIdle
  /\ gpc = "call"
  /\ width \in Arguments /\ length \in Arguments /\ spacing \in Arguments
  /\ built = NoGrid

SpecArgs == ArgsInit /\ [][Build]_vars

\* The planner runs on grids of 1 to MaxCells cells each way, with these
\* spacings and between these points, all in tenths.
MaxCells == 2

PathSpacings10 == {3, 5}

PathPoints10 == {<<0, 0>>, <<-2, 3>>, <<2, 2>>, <<4, 10>>}

PathInit ==
  /\ DirIdle /\ RunIdle /\ CacheEmpty /\ NavIdle
  /\ gpc = "call"
  /\ \E s \in PathSpacings10, nx \in 1..MaxCells, ny \in 1..MaxCells :
       /\ spacing = FTenths(s)
       /\ width = FTenths(nx * s)
       /\ length = FTenths(ny * s)
  /\ built = NoGrid
  /\ ppc = "call"
  /\ \E p \in PathPoints10 : start = <<FTenths(p[1]), FTenths(p[2])>>
  /\ \E p \in PathPoints10 : goal = <<FTenths(p[1]), FTenths(p[2])>>
  /\ found = NoPath

FindPath ==
  /\ ppc = "call" /\ gpc = "done" /\ built.ok
  /\ found' = find_path(built.G, built.nodes, start, goal, depth_map, threshold)
  /\ ppc' = "done"
  /\ UNCHANGED <<start, goal, gridVars, dirVars, runVars, depthVars, navVars>>

SpecPath == PathInit /\ [][Build \/ FindPath]_vars

\* find_path on graphs made by hand: MaxNodes nodes or fewer at the points
\* (0, 0), (1, 0), (0, 1), (1, 1), ... joined by any set of straight edges,
\* without a depth frame or with one of three rows and columns whose center
\* pixel has one depth and whose other pixels have another.
MaxNodes == 3

HandPoint(k) == <<FFromInt((k - 1) % 2), FFromInt((k - 1) \div 2)>>

HandNodes(n) == [k \in 1..n |-> [key |-> HandPoint(k), val |-> k - 1]]

\* G.add_edge(u, v, weight = the distance) for the edges of E, by rank
RECURSIVE HandCalls(_, _)
HandCalls(E, n) ==
  IF E = {} THEN <<>>
  ELSE LET e == CHOOSE e \in E : \A f \in E : e[1] * n + e[2] <= f[1] * n + f[2]
       IN  <<[u |-> e[1], v |-> e[2],
              w |-> euclidean(HandPoint(e[1] + 1), HandPoint(e[2] + 1))]>>
           \o HandCalls(E \ {e}, n)

HandGraph(n, E) ==
  [ok |-> TRUE, nodes |-> HandNodes(n), G |-> GraphOfCalls(HandNodes(n), HandCalls(E, n))]

HandGraphs ==
  UNION {{HandGraph(n, E) : E \in SUBSET {e \in (0..(n - 1)) \X (0..(n - 1)) : e[1] < e[2]}} :
           n \in 2..MaxNodes}

HandFrames ==
  {NoFrame} \cup {[h |-> 3, w |-> 3, bg |-> b, pix |-> (<<1, 1>> :> c)] : b \in 0..1, c \in 0..1}

HandInit ==
  /\ RunIdle /\ CacheEmpty /\ NavIdle
  /\ gpc = "done"
  /\ width = FZero /\ length = FZero /\ spacing = FZero
  /\ built \in HandGraphs
  /\ dpc = "idle"
  /\ depth_map \in HandFrames
  /\ threshold = 1
  /\ verdict = NoVerdict
  /\ ppc = "call"
  /\ \E y \in 0..1 : start \in {HandPoint(1), <<FHalf, FFromInt(y)>>}
  /\ \E k \in 1..MaxNodes : goal = HandPoint(k)
  /\ found = NoPath

SpecHand == HandInit /\ [][FindPath]_vars

(***************************************************************************)
(* run() of main.py.  The drone and the depth provider are the             *)
(* environment: every drone command may raise, and get_latest_depth        *)
(* returns no frame or any frame.  calls is the sequence of the calls run()*)
(* has made to the drone and of its fetch_depth_once requests.  The heading*)
(* is kept as a vector that points along it, north being (0, 1) and east   *)
(* (1, 0): a quarter turn is exact on it, and an angle is compared through *)
(* the scalar and the vector product.                                      *)
(***************************************************************************)
ALTITUDE_STEP == FFromRatio(1, 5)

MIN_ALTITUDE == FHalf

\* Depths are counted in units of 0.5 m, the threshold for "clear".
DEPTH_THRESHOLD == 1

FETCH == "fetch_depth_once"

\* drone.rotate_counter_clockwise(90) or drone.rotate_clockwise(90)
rotate_drone_90(direction) ==
  IF direction = LEFT THEN <<"rotate_counter_clockwise">>
  ELSE IF direction = RIGHT THEN <<"rotate_clockwise">>
  ELSE <<>>

\* (heading + (90 if direction == Direction.RIGHT else -90)) % 360
Turned(hdg, direction) ==
  IF direction = RIGHT THEN <<hdg[2], FNeg(hdg[1])>> ELSE <<FNeg(hdg[2]), hdg[1]>>

prune_facing_node(wps) == IF Len(wps) > 1 THEN Tail(wps) ELSE <<>>

\* path = prune_facing_node(path) alone
ReplannedPruned(G, nodes, wps, pos, GOAL) ==
  [ok |-> TRUE, path |-> prune_facing_node(wps)]

\* path = prune_facing_node(path); path = find_path(G, nodes, current_pos, GOAL):
\* the second assignment replaces the first
Replanned(G, nodes, wps, pos, GOAL) ==
  [pruned |-> prune_facing_node(wps),
   planned |-> find_path(G, nodes, pos, GOAL, NoDepth, 0)].planned

\* while len(path) > 1
ContinuesToLast(wps) == Len(wps) > 1

\* while path
Continues(wps) == wps # <<>>

FMax(x, y) == IF FLt(x, y) THEN y ELSE x

\* math.isclose(a, b, abs_tol = 1e-3), with rel_tol = 1e-9 by default
isclose(a, b) ==
  FLe(FAbs(FSub(a, b)),
      FMax(FMul(FFromRatio(1, 1000000000), FMax(FAbs(a), FAbs(b))),
           FFromRatio(1, 1000)))

\* the test that pops the head of the path
Reached(pos, wp) == isclose(pos[1], wp[1]) /\ isclose(pos[2], wp[2])

\* dx, dy = target - pos
Toward(target, pos) == <<FSub(target[1], pos[1]), FSub(target[2], pos[2])>>

\* abs(dx) < 1e-6 and abs(dy) < 1e-6
Degenerate(d) == FLt(FAbs(d[1]), FTol) /\ FLt(FAbs(d[2]), FTol)

Dot(a, b) == FAdd(FMul(a[1], b[1]), FMul(a[2], b[2]))

Wedge(a, b) == FSub(FMul(a[1], b[2]), FMul(a[2], b[1]))

\* the squared cosines of 10 and of 5 degrees, to nine places
Cos2Of10 == FFromRatio(969846310, 1000000000)

Cos2Of5 == FFromRatio(992403877, 1000000000)

\* the angle between two vectors of scalar product dot and squared lengths
\* aa and bb is at most the one of squared cosine cos2
AngleWithin(dot, aa, bb, cos2) ==
  ~FLt(dot, FZero) /\ FLe(FMul(cos2, FMul(aa, bb)), FMul(dot, dot))

Near(a, b, cos2) == AngleWithin(Dot(a, b), Dot(a, a), Dot(b, b), cos2)

\* delta <= tolerance_deg for the heading and the bearing of d
Facing(hdg, d) == Degenerate(d) \/ Near(hdg, d, Cos2Of10)

is_facing_target(hdg, target, pos) == Facing(hdg, Toward(target, pos))

\* turn > 180 is a target to the left of the heading; a turn of 5 degrees or
\* less issues nothing; after a rotation the heading is the bearing of d
RotateBy(hdg, d) ==
  IF Degenerate(d) \/ Near(hdg, d, Cos2Of5) THEN [heading |-> hdg, ops |-> <<>>]
  ELSE [heading |-> d,
        ops |-> <<IF FLt(FZero, Wedge(hdg, d)) THEN "rotate_counter_clockwise"
                  ELSE "rotate_clockwise">>]

rotate_toward(target, pos, hdg) == RotateBy(hdg, Toward(target, pos))

\* min(int(dist * 100), 500)
MoveCm(dist) == Min2(PyInt(FMul(dist, FFromInt(100))), 500)

\* pos moved by step metres along hdg
Projected(pos, hx, hy, step) ==
  <<FAdd(pos[1], FDiv(FMul(step, hx), FHypot(hx, hy))),
    FAdd(pos[2], FDiv(FMul(step, hy), FHypot(hx, hy)))>>

MoveAlong(pos, hdg, ops, cm) ==
  [pos |-> Projected(pos, hdg[1], hdg[2], FDiv(FFromInt(cm), FFromInt(100))),
   heading |-> hdg,
   ops |-> ops \o <<"move_forward">>]

MoveAfter(pos, r, cm) == MoveAlong(pos, r.heading, r.ops, cm)

MoveBy(pos, hdg, d) ==
  IF Degenerate(d) THEN [pos |-> pos, heading |-> hdg, ops |-> <<>>]
  ELSE MoveAfter(pos, RotateBy(hdg, d), MoveCm(FHypot(d[1], d[2])))

\* rotate toward the target, command the forward motion, project the position
move_toward(target, pos, hdg) == MoveBy(pos, hdg, Toward(target, pos))

\* The loop begins an iteration while run() has made fewer than MaxCalls calls.
MaxCalls == 5

\* WIDTH and LENGTH in tenths, with SPACING = 0.5; GOAL and ALTITUDE in tenths
RunSizes10 == {<<2, 5>>, <<5, 5>>, <<10, 5>>}

RunAltitudes10 == {8, 10}

RunGoals10 == {<<0, 0>>, <<5, 0>>, <<5, 5>>}

\* get_latest_depth returns None
Absent == [dir |-> "absent", status |-> <<>>]

\* the pixels of the cross of frame f that are clear
ClearOf(f) == {p \in DOMAIN f.pix : f.pix[p] >= DEPTH_THRESHOLD}

\* The frames get_latest_depth returns: blocked off the cross, and with no
\* pixel, one pixel or every pixel of the cross clear.
RunFrames ==
  {f \in Frames(MaxDim, MaxDim, {DEPTH_THRESHOLD - 1, DEPTH_THRESHOLD}) :
     /\ f.bg < DEPTH_THRESHOLD
     /\ Cardinality(ClearOf(f)) \in {0, 1, Cardinality(DOMAIN f.pix)}}

\* what choose_safe_direction returns on them
RunVerdicts == {choose_safe_direction(f, DEPTH_THRESHOLD) : f \in RunFrames}

\* the drone commands among ops one of which raises (0: none does)
Failures(ops) == {0} \cup {i \in 1..Len(ops) : ops[i] # FETCH}

\* the calls made when the fail-th of ops raises
Issued(log, ops, fail) ==
  log \o SubSeq(ops, 1, IF fail = 0 THEN Len(ops) ELSE fail)

RunInit ==
  /\ DirIdle /\ CacheEmpty /\ NavIdle
  /\ gpc = "call"
  /\ spacing = FHalf
  /\ \E s \in RunSizes10 : width = FTenths(s[1]) /\ length = FTenths(s[2])
  /\ built = NoGrid
  /\ ppc = "call"
  /\ start = Origin
  /\ \E p \in RunGoals10 : goal = <<FTenths(p[1]), FTenths(p[2])>>
  /\ found = NoPath
  /\ rpc = "plan"
  /\ path = <<>>
  /\ current_pos = Origin /\ heading = North
  /\ \E a \in RunAltitudes10 : altitude = FTenths(a)
  /\ next_wp = Origin
  /\ chosen = NoVerdict
  /\ calls = <<>>
  /\ depth_stop_event = FALSE

\* build_grid_x_graph or find_path raises before the take-off
PlanRaises ==
  /\ rpc = "plan" /\ gpc = "done"
  /\ IF built.ok THEN ppc = "done" /\ ~found.ok ELSE TRUE
  /\ rpc' = "raised"
  /\ UNCHANGED <<path, current_pos, heading, altitude, next_wp, chosen, calls,
                 depth_stop_event, gridVars, dirVars, pathVars,
                 depthVars, navVars>>

\* drone.takeoff(); drone.move_up(int(ALTITUDE * 100)); the initial pose
TakeOff ==
  /\ rpc = "plan" /\ ppc = "done" /\ found.ok
  /\ path' = found.path
  /\ \E fail \in 0..2 :
       /\ calls' = Issued(calls, <<"takeoff", "move_up">>, fail)
       /\ rpc' = IF fail = 0 THEN "loop" ELSE "raised"
  /\ UNCHANGED <<current_pos, heading, altitude, next_wp, chosen, depth_stop_event,
                 gridVars, dirVars, pathVars,
                 depthVars, navVars>>

\* the same with fetch_depth_once() called twice when there is no frame
SenseTwice ==
  /\ rpc = "loop" /\ Continues(path) /\ Len(calls) < MaxCalls
  /\ \E v \in {Absent} \cup RunVerdicts :
       /\ chosen' = IF v = Absent THEN chosen ELSE v
       /\ calls' = IF v = Absent THEN calls \o <<FETCH, FETCH>> ELSE calls
       /\ rpc' = IF v = Absent THEN "loop" ELSE "chosen"
  /\ UNCHANGED <<path, current_pos, heading, altitude, next_wp,
                 depth_stop_event, gridVars, dirVars, pathVars,
                 depthVars, navVars>>

\* depth = get_latest_depth(); without a frame fetch_depth_once() and retry,
\* else direction, status = choose_safe_direction(depth, DEPTH_THRESHOLD)
Sense ==
  /\ rpc = "loop" /\ Continues(path) /\ Len(calls) < MaxCalls
  /\ \E v \in {Absent} \cup RunVerdicts :
       /\ chosen' = IF v = Absent THEN chosen ELSE v
       /\ calls' = IF v = Absent THEN Append(calls, FETCH) ELSE calls
       /\ rpc' = IF v = Absent THEN "loop" ELSE "chosen"
  /\ UNCHANGED <<path, current_pos, heading, altitude, next_wp,
                 depth_stop_event, gridVars, dirVars, pathVars,
                 depthVars, navVars>>

\* direction == Direction.CENTER
Forward ==
  /\ rpc = "chosen" /\ chosen.dir = CENTER
  /\ next_wp' = path[1]
  /\ rpc' = "advance"
  /\ chosen' = NoVerdict
  /\ UNCHANGED <<path, current_pos, heading, altitude, calls, depth_stop_event,
                 gridVars, dirVars, pathVars,
                 depthVars, navVars>>

\* direction == Direction.UP
Climb ==
  /\ rpc = "chosen" /\ chosen.dir = UP
  /\ \E fail \in 0..1 :
       /\ calls' = Issued(calls, <<"move_up", FETCH>>, fail)
       /\ altitude' = IF fail = 0 THEN FAdd(altitude, ALTITUDE_STEP) ELSE altitude
       /\ rpc' = IF fail = 0 THEN "loop" ELSE "raised"
  /\ chosen' = NoVerdict
  /\ UNCHANGED <<path, current_pos, heading, next_wp, depth_stop_event,
                 gridVars, dirVars, pathVars,
                 depthVars, navVars>>

\* altitude >= MIN_ALTITUDE
MayDescendToFloor(alt) == FLe(MIN_ALTITUDE, alt)

\* altitude - ALTITUDE_STEP >= MIN_ALTITUDE
MayDescend(alt) == FLe(MIN_ALTITUDE, FSub(alt, ALTITUDE_STEP))

\* direction == Direction.DOWN and altitude - ALTITUDE_STEP >= MIN_ALTITUDE
Descend ==
  /\ rpc = "chosen" /\ chosen.dir = DOWN
  /\ MayDescend(altitude)
  /\ \E fail \in 0..1 :
       /\ calls' = Issued(calls, <<"move_down", FETCH>>, fail)
       /\ altitude' = IF fail = 0 THEN FSub(altitude, ALTITUDE_STEP) ELSE altitude
       /\ rpc' = IF fail = 0 THEN "loop" ELSE "raised"
  /\ chosen' = NoVerdict
  /\ UNCHANGED <<path, current_pos, heading, next_wp, depth_stop_event,
                 gridVars, dirVars, pathVars,
                 depthVars, navVars>>

\* direction in (Direction.LEFT, Direction.RIGHT), up to fetch_depth_once()
Rotate ==
  /\ rpc = "chosen" /\ chosen.dir \in {LEFT, RIGHT}
  /\ \E fail \in 0..1 :
       /\ calls' = Issued(calls, rotate_drone_90(chosen.dir) \o <<FETCH>>, fail)
       /\ heading' = IF fail = 0 THEN Turned(heading, chosen.dir) ELSE heading
       /\ rpc' = IF fail = 0 THEN "turned" ELSE "raised"
  /\ chosen' = NoVerdict
  /\ UNCHANGED <<path, current_pos, altitude, next_wp, depth_stop_event,
                 gridVars, dirVars, pathVars,
                 depthVars, navVars>>

\* the path and the position of the program after path = ... find_path(...)
Replan(r) ==
  /\ path' = IF r.ok THEN r.path ELSE path
  /\ rpc' = IF r.ok THEN "loop" ELSE "raised"

\* no earlier branch is taken: prune and replan while the center is not
\* clear, else fetch_depth_once() and retry
Blocked ==
  /\ rpc = "chosen" /\ chosen.dir \notin {CENTER, UP, LEFT, RIGHT}
  /\ chosen.dir = DOWN => ~MayDescend(altitude)
  /\ IF ~chosen.status["center"]
     THEN /\ Replan(Replanned(built.G, built.nodes, path, current_pos, goal))
          /\ calls' = calls
     ELSE /\ calls' = Append(calls, FETCH)
          /\ rpc' = "loop"
          /\ path' = path
  /\ chosen' = NoVerdict
  /\ UNCHANGED <<current_pos, heading, altitude, next_wp, depth_stop_event,
                 gridVars, dirVars, pathVars,
                 depthVars, navVars>>

\* new_depth = get_latest_depth(); continue without a frame, else
\* new_dir, _ = choose_safe_direction(new_depth, DEPTH_THRESHOLD)
SenseAgain ==
  /\ rpc = "turned"
  /\ \E v \in {Absent} \cup RunVerdicts :
       /\ chosen' = IF v = Absent THEN chosen ELSE [dir |-> v.dir, status |-> <<>>]
       /\ rpc' = IF v = Absent THEN "loop" ELSE "rechosen"
  /\ UNCHANGED <<path, current_pos, heading, altitude, next_wp, calls,
                 depth_stop_event, gridVars, dirVars, pathVars,
                 depthVars, navVars>>

\* new_dir == Direction.CENTER: next_wp = path[0]; else prune and replan
Redirect ==
  /\ rpc = "rechosen"
  /\ IF chosen.dir = CENTER
     THEN /\ next_wp' = path[1]
          /\ rpc' = "advance"
          /\ path' = path
     ELSE /\ Replan(Replanned(built.G, built.nodes, path, current_pos, goal))
          /\ next_wp' = next_wp
  /\ chosen' = NoVerdict
  /\ UNCHANGED <<current_pos, heading, altitude, calls, depth_stop_event,
                 gridVars, dirVars, pathVars,
                 depthVars, navVars>>

\* the move m behind the calls ops, the fail-th of which raises
Moved(m, ops, fail) ==
  /\ calls' = Issued(calls, ops, fail)
  /\ current_pos' = IF fail = 0 THEN m.pos ELSE current_pos
  /\ heading' = IF fail = 0 THEN m.heading ELSE heading
  /\ path' = IF fail = 0 /\ Reached(m.pos, next_wp) THEN Tail(path) ELSE path
  /\ rpc' = IF fail = 0 THEN "loop" ELSE "raised"

\* if is_facing_target(heading, current_pos, next_wp): fetch_depth_once();
\* current_pos, heading = move_toward(drone, next_wp, current_pos, heading);
\* path.pop(0) at the waypoint
Advance ==
  /\ rpc = "advance"
  /\ \E m \in {move_toward(next_wp, current_pos, heading)} :
       \E ops \in {(IF is_facing_target(heading, current_pos, next_wp)
                    THEN <<FETCH>> ELSE <<>>) \o m.ops} :
         \E fail \in Failures(ops) : Moved(m, ops, fail)
  /\ UNCHANGED <<altitude, next_wp, chosen, depth_stop_event,
                 gridVars, dirVars, pathVars,
                 depthVars, navVars>>

\* drone.land() after the loop
Land ==
  /\ rpc = "loop" /\ ~Continues(path)
  /\ calls' = Append(calls, "land")
  /\ \E raised \in BOOLEAN : rpc' = IF raised THEN "raised" ELSE "landed"
  /\ UNCHANGED <<path, current_pos, heading, altitude, next_wp, chosen,
                 depth_stop_event, gridVars, dirVars, pathVars,
                 depthVars, navVars>>

\* depth_stop_event.set(), and run() returns
Stop ==
  /\ rpc = "landed"
  /\ depth_stop_event' = TRUE
  /\ rpc' = "returned"
  /\ UNCHANGED <<path, current_pos, heading, altitude, next_wp, chosen, calls,
                 gridVars, dirVars, pathVars,
                 depthVars, navVars>>

RunNext ==
  \/ Build \/ FindPath \/ PlanRaises \/ TakeOff \/ Sense \/ Forward \/ Climb
  \/ Descend \/ Rotate \/ Blocked \/ SenseAgain \/ Redirect \/ Advance \/ Land
  \/ Stop

SpecRun == RunInit /\ [][RunNext]_vars

DepthInit ==
  /\ GridIdle /\ DirIdle /\ PathIdle /\ RunIdle /\ NavIdle
  /\ CacheEmpty

\* with _lock: the lock is taken when no one holds it
FreeAlways(l) == TRUE

Free(l) == l = "free"

\* resp = requests.get(...); resp.raise_for_status(); depth_map = np.load(buf);
\* the background fetcher calls while the stop event is not set
Request(p) ==
  /\ fetcher[p].pc = "idle" /\ fetches < MaxFetches
  /\ p = "background" => ~depth_stop_event
  /\ fetches' = fetches + 1
  /\ \E ok \in BOOLEAN :
       IF ok
       THEN /\ arrays' = [arrays EXCEPT ![fetches + 1] =
                            [frame |-> fetches + 1, by |-> fetches + 1]]
            /\ fetcher' = [fetcher EXCEPT ![p] =
                             [pc |-> "lock", k |-> fetches + 1,
                              depth_map |-> fetches + 1, i |-> 0, ret |-> "none"]]
       ELSE /\ arrays' = arrays
            /\ fetcher' = [fetcher EXCEPT ![p] = [FetcherIdle EXCEPT !.ret = "False"]]
  /\ UNCHANGED <<lock, latest_depth, latest_timestamp, latest_meta, now, reader,
                 notified, gridVars, dirVars, pathVars, runVars, navVars>>

\* with _lock
Acquire(p) ==
  /\ fetcher[p].pc = "lock" /\ Free(lock)
  /\ lock' = p
  /\ fetcher' = [fetcher EXCEPT ![p].pc = "depth"]
  /\ UNCHANGED <<latest_depth, latest_timestamp, latest_meta, arrays, now, reader,
                 notified, fetches, gridVars, dirVars, pathVars, runVars, navVars>>

\* _latest_depth = depth_map
WriteDepth(p) ==
  /\ fetcher[p].pc = "depth"
  /\ latest_depth' = fetcher[p].depth_map
  /\ fetcher' = [fetcher EXCEPT ![p].pc = "timestamp"]
  /\ UNCHANGED <<lock, latest_timestamp, latest_meta, arrays, now, reader,
                 notified, fetches, gridVars, dirVars, pathVars, runVars, navVars>>

\* _latest_timestamp = time.time()
WriteTimestamp(p) ==
  /\ fetcher[p].pc = "timestamp"
  /\ latest_timestamp' = [t |-> now, by |-> fetcher[p].k]
  /\ fetcher' = [fetcher EXCEPT ![p].pc = "meta"]
  /\ UNCHANGED <<lock, latest_depth, latest_meta, arrays, now, reader,
                 notified, fetches, gridVars, dirVars, pathVars, runVars, navVars>>

\* _latest_meta = {"fetched_at": _latest_timestamp}
WriteMeta(p) ==
  /\ fetcher[p].pc = "meta"
  /\ latest_meta' = [fetched_at |-> latest_timestamp.t, by |-> fetcher[p].k]
  /\ fetcher' = [fetcher EXCEPT ![p].pc = "unlock"]
  /\ UNCHANGED <<lock, latest_depth, latest_timestamp, arrays, now, reader,
                 notified, fetches, gridVars, dirVars, pathVars, runVars, navVars>>

\* the end of the with block; list(_subscribers)
Release(p) ==
  /\ fetcher[p].pc = "unlock"
  /\ lock' = "free"
  /\ fetcher' = [fetcher EXCEPT ![p].pc = "notify", ![p].i = 1]
  /\ UNCHANGED <<latest_depth, latest_timestamp, latest_meta, arrays, now, reader,
                 notified, fetches, gridVars, dirVars, pathVars, runVars, navVars>>

\* a callback that raises ends the notifications
NotifyUntilRaise(p) ==
  /\ fetcher[p].pc = "notify" /\ fetcher[p].i <= Len(Subscribers)
  /\ \E raises \in BOOLEAN :
       /\ notified' = Append(notified,
                             [cb |-> Subscribers[fetcher[p].i], fetch |-> fetcher[p].k,
                              depth_map |-> fetcher[p].depth_map, meta |-> latest_meta,
                              raises |-> raises])
       /\ fetcher' = [fetcher EXCEPT ![p].i = IF raises THEN Len(Subscribers) + 1 ELSE @ + 1]
  /\ UNCHANGED <<lock, latest_depth, latest_timestamp, latest_meta, arrays, now,
                 reader, fetches, gridVars, dirVars, pathVars, runVars, navVars>>

\* cb(depth_map, _latest_meta) for the next subscriber, which may raise
Notify(p) ==
  /\ fetcher[p].pc = "notify" /\ fetcher[p].i <= Len(Subscribers)
  /\ \E raises \in BOOLEAN :
       notified' = Append(notified,
                          [cb |-> Subscribers[fetcher[p].i], fetch |-> fetcher[p].k,
                           depth_map |-> fetcher[p].depth_map, meta |-> latest_meta,
                           raises |-> raises])
  /\ fetcher' = [fetcher EXCEPT ![p].i = @ + 1]
  /\ UNCHANGED <<lock, latest_depth, latest_timestamp, latest_meta, arrays, now,
                 reader, fetches, gridVars, dirVars, pathVars, runVars, navVars>>

\* return True
Return(p) ==
  /\ fetcher[p].pc = "notify" /\ fetcher[p].i > Len(Subscribers)
  /\ fetcher' = [fetcher EXCEPT ![p] = [FetcherIdle EXCEPT !.ret = "True"]]
  /\ UNCHANGED <<lock, latest_depth, latest_timestamp, latest_meta, arrays, now,
                 reader, notified, fetches, gridVars, dirVars, pathVars, runVars, navVars>>

\* a call of get_latest_depth(max_age) or of get_depth_age()
Call ==
  /\ reader.pc = "idle"
  /\ \E op \in {"get_latest_depth", "get_depth_age"}, max_age \in 0..MAX_DEPTH_AGE :
       reader' = [ReaderIdle EXCEPT !.pc = "lock", !.op = op,
                                     !.max_age = IF op = "get_depth_age" THEN 0 ELSE max_age]
  /\ arrays' = [arrays EXCEPT ![Returned] = Unloaded]
  /\ UNCHANGED <<lock, latest_depth, latest_timestamp, latest_meta, now, fetcher,
                 notified, fetches, gridVars, dirVars, pathVars, runVars, navVars>>

\* with _lock
ReaderAcquire ==
  /\ reader.pc = "lock" /\ Free(lock)
  /\ lock' = "reader"
  /\ reader' = [reader EXCEPT !.pc = "depth"]
  /\ UNCHANGED <<latest_depth, latest_timestamp, latest_meta, arrays, now, fetcher,
                 notified, fetches, gridVars, dirVars, pathVars, runVars, navVars>>

\* what the call returns with no frame cached
NoFrameResult(op) ==
  IF op = "get_latest_depth" THEN [kind |-> "None"] ELSE [kind |-> "inf"]

\* if _latest_depth is None: return None; float("inf") in get_depth_age
ReadDepth ==
  /\ reader.pc = "depth"
  /\ reader' = IF latest_depth = NoArray
               THEN [reader EXCEPT !.pc = "unlock", !.result = NoFrameResult(reader.op)]
               ELSE [reader EXCEPT !.pc = "timestamp", !.depth = latest_depth]
  /\ UNCHANGED <<lock, latest_depth, latest_timestamp, latest_meta, arrays, now,
                 fetcher, notified, fetches, gridVars, dirVars, pathVars, runVars, navVars>>

\* age = time.time() - _latest_timestamp; if age > max_age: return None;
\* get_depth_age returns the age
ReadTimestamp ==
  /\ reader.pc = "timestamp"
  /\ reader' =
       IF reader.op = "get_depth_age"
       THEN [reader EXCEPT !.pc = "unlock", !.ts = latest_timestamp, !.at = now,
                           !.result = [kind |-> "age", age |-> now - latest_timestamp.t]]
       ELSE IF now - latest_timestamp.t > reader.max_age
       THEN [reader EXCEPT !.pc = "unlock", !.ts = latest_timestamp, !.at = now,
                           !.result = [kind |-> "None"]]
       ELSE [reader EXCEPT !.pc = "copy", !.ts = latest_timestamp, !.at = now]
  /\ UNCHANGED <<lock, latest_depth, latest_timestamp, latest_meta, arrays, now,
                 fetcher, notified, fetches, gridVars, dirVars, pathVars, runVars, navVars>>

\* the array the call returns for the cached array a
TheArray(a) == a

Copy(a) == Returned

\* return _latest_depth.copy()
ReadCopy ==
  /\ reader.pc = "copy"
  /\ arrays' = [arrays EXCEPT ![Returned] = arrays[latest_depth]]
  /\ reader' = [reader EXCEPT !.pc = "unlock",
                              !.result = [kind |-> "array", array |-> Copy(latest_depth),
                                          frame |-> arrays[latest_depth].frame,
                                          by |-> arrays[latest_depth].by]]
  /\ UNCHANGED <<lock, latest_depth, latest_timestamp, latest_meta, now, fetcher,
                 notified, fetches, gridVars, dirVars, pathVars, runVars, navVars>>

\* the end of the with block: the call returns
ReaderRelease ==
  /\ reader.pc = "unlock"
  /\ lock' = "free"
  /\ reader' = [reader EXCEPT !.pc = "idle"]
  /\ UNCHANGED <<latest_depth, latest_timestamp, latest_meta, arrays, now, fetcher,
                 notified, fetches, gridVars, dirVars, pathVars, runVars, navVars>>

\* the caller changes the frame it was returned
Scribble ==
  /\ reader.pc = "idle" /\ reader.result.kind = "array"
  /\ arrays[reader.result.array].frame # Scribbled
  /\ arrays' = [arrays EXCEPT ![reader.result.array].frame = Scribbled]
  /\ UNCHANGED <<lock, latest_depth, latest_timestamp, latest_meta, now, fetcher,
                 reader, notified, fetches, gridVars, dirVars, pathVars, runVars, navVars>>

\* a second passes
Tick ==
  /\ now < MaxTime
  /\ now' = now + 1
  /\ UNCHANGED <<lock, latest_depth, latest_timestamp, latest_meta, arrays, fetcher,
                 reader, notified, fetches, gridVars, dirVars, pathVars, runVars, navVars>>

\* stop_event.set() by the owner of the background fetcher
SetStop ==
  /\ ~depth_stop_event
  /\ depth_stop_event' = TRUE
  /\ UNCHANGED <<rpc, path, current_pos, heading, altitude, next_wp, chosen, calls,
                 depthVars, gridVars, dirVars, pathVars, navVars>>

DepthNext ==
  \/ \E p \in Fetchers :
       \/ Request(p) \/ Acquire(p) \/ WriteDepth(p) \/ WriteTimestamp(p)
       \/ WriteMeta(p) \/ Release(p) \/ Notify(p) \/ Return(p)
  \/ Call \/ ReaderAcquire \/ ReadDepth \/ ReadTimestamp \/ ReadCopy
  \/ ReaderRelease \/ Scribble \/ Tick \/ SetStop

SpecDepth == DepthInit /\ [][DepthNext]_vars

(***************************************************************************)
(* rotate_toward of drone_navigator.py on a heading in degrees.  A command *)
(* is the pair of its name and its argument.  math.atan2 is carried as the *)
(* table of its values on the directions whose components are whole        *)
(* quarters of a metre, up to 12 across and 4 along after the common       *)
(* factor is taken out.                                                    *)
(***************************************************************************)
RECURSIVE Gcd(_, _)
Gcd(a, b) == IF b = 0 THEN a ELSE Gcd(b, a % b)

Magnitude(n) == IF n < 0 THEN -n ELSE n

FBits(exp, man) == [sgn |-> 0, exp |-> exp, man |-> man]

\* math.degrees(math.atan2(dx, dy)) for whole dx >= 0 and dy without a common
\* factor
Atan2Degrees(dx, dy) ==
  CASE dx = 0 /\ dy = 1 -> FZero
    [] dx = 1 /\ dy = 4 -> FBits(-49, <<8238, 1003, 10472, 1796>>)
    [] dx = 1 /\ dy = 3 -> FBits(-48, <<8764, 14695, 13708, 1179>>)
    [] dx = 1 /\ dy = 2 -> FBits(-48, <<7620, 1688, 2675, 1700>>)
    [] dx = 2 /\ dy = 3 -> FBits(-47, <<3762, 2016, 1346, 1078>>)
    [] dx = 3 /\ dy = 4 -> FBits(-47, <<8764, 14695, 13708, 1179>>)
    [] dx = 1 /\ dy = 1 -> FFromInt(45)
    [] dx = 5 /\ dy = 4 -> FBits(-47, <<1711, 7374, 14518, 1642>>)
    [] dx = 4 /\ dy = 3 -> FBits(-47, <<7620, 1688, 2675, 1700>>)
    [] dx = 3 /\ dy = 2 -> FBits(-47, <<12622, 14367, 15037, 1801>>)
    [] dx = 5 /\ dy = 3 -> FBits(-47, <<14348, 250, 2618, 1889>>)
    [] dx = 7 /\ dy = 4 -> FBits(-47, <<7573, 11052, 2683, 1928>>)
    [] dx = 2 /\ dy = 1 -> FBits(-47, <<12574, 7347, 15046, 2029>>)
    [] dx = 9 /\ dy = 4 -> FBits(-46, <<6982, 4755, 9833, 1056>>)
    [] dx = 7 /\ dy = 3 -> FBits(-46, <<9588, 11278, 13476, 1068>>)
    [] dx = 5 /\ dy = 2 -> FBits(-46, <<6796, 5105, 2907, 1091>>)
    [] dx = 8 /\ dy = 3 -> FBits(-46, <<12974, 1342, 1692, 1111>>)
    [] dx = 11 /\ dy = 4 -> FBits(-46, <<15652, 8583, 4428, 1120>>)
    [] dx = 3 /\ dy = 1 -> FBits(-46, <<1905, 12710, 668, 1145>>)
    [] dx = 10 /\ dy = 3 -> FBits(-46, <<1325, 5235, 13305, 1172>>)
    [] dx = 7 /\ dy = 2 -> FBits(-46, <<12516, 2243, 14314, 1184>>)
    [] dx = 11 /\ dy = 3 -> FBits(-46, <<12598, 2665, 15042, 1195>>)
    [] dx = 4 /\ dy = 1 -> FBits(-46, <<9211, 16258, 6882, 1215>>)
    [] dx = 9 /\ dy = 2 -> FBits(-46, <<5269, 3799, 8832, 1239>>)
    [] dx = 5 /\ dy = 1 -> FBits(-46, <<1881, 1008, 673, 1259>>)
    [] dx = 11 /\ dy = 2 -> FBits(-46, <<5715, 5362, 2006, 1275>>)
    [] dx = 6 /\ dy = 1 -> FBits(-46, <<5169, 116, 9877, 1288>>)
    [] dx = 7 /\ dy = 1 -> FBits(-46, <<12575, 7347, 15046, 1309>>)
    [] dx = 8 /\ dy = 1 -> FBits(-46, <<24, 11702, 16379, 1325>>)
    [] dx = 9 /\ dy = 1 -> FBits(-46, <<15529, 12696, 9124, 1338>>)
    [] dx = 10 /\ dy = 1 -> FBits(-46, <<11093, 4465, 10330, 1348>>)
    [] dx = 11 /\ dy = 1 -> FBits(-46, <<14451, 10295, 14567, 1356>>)
    [] dx = 12 /\ dy = 1 -> FBits(-46, <<7683, 14952, 12807, 1363>>)
    [] dx = 1 /\ dy = 0 -> FFromInt(90)
    [] dx = 12 /\ dy = -1 -> FBits(-46, <<8701, 1431, 3576, 1516>>)
    [] dx = 11 /\ dy = -1 -> FBits(-46, <<1933, 6088, 1816, 1523>>)
    [] dx = 10 /\ dy = -1 -> FBits(-46, <<5292, 11918, 6053, 1531>>)
    [] dx = 9 /\ dy = -1 -> FBits(-46, <<855, 3687, 7259, 1541>>)
    [] dx = 8 /\ dy = -1 -> FBits(-46, <<16360, 4681, 4, 1554>>)
    [] dx = 7 /\ dy = -1 -> FBits(-46, <<3810, 9036, 1337, 1570>>)
    [] dx = 6 /\ dy = -1 -> FBits(-46, <<11216, 16267, 6506, 1591>>)
    [] dx = 11 /\ dy = -2 -> FBits(-46, <<10669, 11021, 14377, 1604>>)
    [] dx = 5 /\ dy = -1 -> FBits(-46, <<14503, 15375, 15710, 1620>>)
    [] dx = 9 /\ dy = -2 -> FBits(-46, <<11115, 12584, 7551, 1640>>)
    [] dx = 4 /\ dy = -1 -> FBits(-46, <<7174, 125, 9501, 1664>>)
    [] dx = 11 /\ dy = -3 -> FBits(-46, <<3787, 13718, 1341, 1684>>)
    [] dx = 7 /\ dy = -2 -> FBits(-46, <<3869, 14140, 2069, 1695>>)
    [] dx = 10 /\ dy = -3 -> FBits(-46, <<15060, 11148, 3078, 1707>>)
    [] dx = 3 /\ dy = -1 -> FBits(-46, <<14480, 3673, 15715, 1734>>)
    [] dx = 11 /\ dy = -4 -> FBits(-46, <<733, 7800, 11955, 1759>>)
    [] dx = 8 /\ dy = -3 -> FBits(-46, <<3410, 15041, 14691, 1768>>)
    [] dx = 5 /\ dy = -2 -> FBits(-46, <<9588, 11278, 13476, 1788>>)
    [] dx = 7 /\ dy = -3 -> FBits(-46, <<6796, 5105, 2907, 1811>>)
    [] dx = 9 /\ dy = -4 -> FBits(-46, <<9403, 11628, 6550, 1823>>)
    [] dx = 2 /\ dy = -1 -> FBits(-46, <<1905, 12710, 668, 1865>>)
    [] dx = 7 /\ dy = -4 -> FBits(-46, <<12598, 2665, 15042, 1915>>)
    [] dx = 5 /\ dy = -3 -> FBits(-46, <<9210, 16258, 6882, 1935>>)
    [] dx = 3 /\ dy = -2 -> FBits(-46, <<1881, 1008, 673, 1979>>)
    [] dx = 4 /\ dy = -3 -> FBits(-46, <<12574, 7347, 15046, 2029>>)
    [] dx = 5 /\ dy = -4 -> FBits(-45, <<7765, 6348, 4562, 1029>>)
    [] dx = 1 /\ dy = -1 -> FFromInt(135)
    [] dx = 3 /\ dy = -4 -> FBits(-45, <<1905, 12710, 668, 1145>>)
    [] dx = 2 /\ dy = -3 -> FBits(-45, <<15444, 7687, 7855, 1170>>)
    [] dx = 1 /\ dy = -2 -> FBits(-45, <<15431, 10028, 7857, 1227>>)
    [] dx = 1 /\ dy = -3 -> FBits(-45, <<953, 6355, 8526, 1292>>)
    [] dx = 1 /\ dy = -4 -> FBits(-45, <<4605, 8129, 11633, 1327>>)
    [] dx = 0 /\ dy = -1 -> FFromInt(180)

\* math.atan2(-dx, dy) is -math.atan2(dx, dy)
DegreesOf(qx, qy, g) ==
  IF qx < 0 THEN FNeg(Atan2Degrees((-qx) \div g, qy \div g))
  ELSE Atan2Degrees(qx \div g, qy \div g)

Quarters(x) == PyInt(FMul(x, FFromInt(4)))

F360 == FFromInt(360)

BearingAt(qx, qy) ==
  FMod(DegreesOf(qx, qy, Gcd(Magnitude(qx), Magnitude(qy))), F360)

\* desired_angle for dx, dy = d
Bearing(d) == BearingAt(Quarters(d[1]), Quarters(d[2]))

\* (desired_angle - heading + 360) % 360
TurnOf(desired, hdg) == FMod(FAdd(FSub(desired, hdg), F360), F360)

\* the same with heading - delta not reduced modulo 360
TurnLeftUnwrapped(hdg, delta) ==
  IF FLt(FFromInt(5), delta)
  THEN [heading |-> FSub(hdg, delta),
        ops |-> <<<<"rotate_counter_clockwise", PyInt(delta)>>>>]
  ELSE [heading |-> hdg, ops |-> <<>>]

\* the branch of turn > 180, with delta = 360 - turn
TurnLeft(hdg, delta) ==
  IF FLt(FFromInt(5), delta)
  THEN [heading |-> FMod(FSub(hdg, delta), F360),
        ops |-> <<<<"rotate_counter_clockwise", PyInt(delta)>>>>]
  ELSE [heading |-> hdg, ops |-> <<>>]

\* the branch of turn <= 180
TurnRight(hdg, t) ==
  IF FLt(FFromInt(5), t)
  THEN [heading |-> FMod(FAdd(hdg, t), F360),
        ops |-> <<<<"rotate_clockwise", PyInt(t)>>>>]
  ELSE [heading |-> hdg, ops |-> <<>>]

\* every turn made clockwise
TurnByClockwise(hdg, t) == TurnRight(hdg, t)

TurnBy(hdg, t) ==
  IF FLt(FFromInt(180), t) THEN TurnLeft(hdg, FSub(F360, t)) ELSE TurnRight(hdg, t)

TurnTo(hdg, d) ==
  IF Degenerate(d) THEN [heading |-> hdg, ops |-> <<>>]
  ELSE TurnBy(hdg, TurnOf(Bearing(d), hdg))

\* rotate_toward(drone, target, pos, heading) with a drone that obeys: the
\* heading returned and the commands given
rotate_toward_degrees(target, pos, hdg) == TurnTo(hdg, Toward(target, pos))

\* The headings tried are the eight multiples of 45 degrees and up to
\* MaxTenths tenths of a degree more; the targets are up to 2 m from the
\* position on either axis.
MaxTenths == 60

TurnHeadings10 == {450 * k + j : k \in 0..7, j \in 0..MaxTenths}

TurnTargets == (-2..2) \X (-2..2)

TurnInit ==
  /\ GridIdle /\ DirIdle /\ PathIdle /\ RunIdle /\ CacheEmpty /\ RouteIdle /\ SectorIdle /\ CaptureIdle
  /\ tpc = "call"
  /\ \E h \in TurnHeadings10, t \in TurnTargets :
       turn = [target |-> <<FFromInt(t[1]), FFromInt(t[2])>>, pos |-> Origin,
               heading |-> FTenths(h)]
  /\ turned = [heading |-> FZero, ops |-> <<>>]

RotateToward ==
  /\ tpc = "call"
  /\ tpc' = "done"
  /\ turned' = rotate_toward_degrees(turn.target, turn.pos, turn.heading)
  /\ UNCHANGED <<turn, routeVars, sectorVars, captureVars, gridVars, dirVars, pathVars, runVars, depthVars>>

SpecTurn == TurnInit /\ [][RotateToward]_vars

(***************************************************************************)
(* execute_simple_route and move_toward_with_depth of drone_navigator.py.  *)
(* The drone and the depth capture are the environment: every motion       *)
(* command may raise, and safe_depth_capture returns no depth or a depth   *)
(* on which safe_direction gives any of its four results.  route.i is the  *)
(* index i of the code, so the target is the (i + 1)-th waypoint.          *)
(* drone holds the motion commands of the last step.  path_re_planner is   *)
(* not in the repository: it is shift_path of the specification with a     *)
(* shift of 0.5 m along x.                                                 *)
(***************************************************************************)
\* a non-center direction is captured at most MaxShifts times
MaxShifts == 1

NoCapture == "None"

Captures == {NoCapture, "center", "right", "left", "none"}

SHIFT == FHalf

Lateral(direction) == IF direction = "left" THEN FNeg(SHIFT) ELSE SHIFT

\* every waypoint but the last moved by dx
Shifted(wps, dx) ==
  [k \in 1..Len(wps) |->
     IF k = Len(wps) THEN wps[k] ELSE <<FAdd(wps[k][1], dx), wps[k][2]>>]

Detour(wps, pos, dx) == <<<<FAdd(pos[1], dx), pos[2]>>>> \o Shifted(wps, dx)

\* side is the side of the detour of direction "none"
path_re_planner(direction, wps, pos, side) ==
  IF direction \in {"left", "right"} THEN Shifted(wps, Lateral(direction))
  ELSE Detour(wps, pos, Lateral(side))

\* step 5 of move_toward_with_depth; r is what rotate_toward returned
Proceed(target, pos, wps, r, cm, capture, side) ==
  IF capture = NoCapture
  THEN [ok |-> FALSE, err |-> "UnboundLocalError", values |-> <<>>, ops |-> r.ops]
  ELSE IF capture = "center"
  THEN IF cm <= 10
       THEN [ok |-> TRUE, values |-> <<pos, r.heading>>, ops |-> r.ops]
       ELSE [ok |-> TRUE, values |-> <<target, r.heading, wps, TRUE>>,
             ops |-> r.ops \o <<<<"move_forward", cm>>>>]
  ELSE [ok |-> TRUE,
        values |-> <<pos, r.heading, path_re_planner(capture, wps, pos, side), FALSE>>,
        ops |-> r.ops]

Approach(target, pos, wps, hdg, d, dist, capture, side) ==
  IF FLt(dist, FFromRatio(1, 10))
  THEN [ok |-> TRUE, values |-> <<pos, hdg>>, ops |-> <<>>]
  ELSE Proceed(target, pos, wps, TurnTo(hdg, d), MoveCm(dist), capture, side)

Heading(target, pos, wps, hdg, d, capture, side) ==
  Approach(target, pos, wps, hdg, d, FHypot(d[1], d[2]), capture, side)

\* move_toward_with_depth with a drone that obeys: the tuple it returns, or
\* the exception it raises, and the commands it gives
move_toward_with_depth(target, pos, wps, hdg, capture, side) ==
  Heading(target, pos, wps, hdg, Toward(target, pos), capture, side)

\* WIDTH and LENGTH in tenths, with a spacing of 0.5; the goals in tenths
RouteSizes10 == {<<2, 5>>, <<5, 5>>, <<10, 10>>}

RouteGoals10 == {<<0, 0>>, <<0, 5>>, <<5, 5>>, <<5, 10>>, <<-5, 5>>, <<10, 10>>}

\* WIDTH, LENGTH and SPACING in tenths of an area of one cell whose corners
\* are further from the start than one forward command reaches
RouteFar10 == <<120, 120, 120>>

\* and of an area of one cell whose corners are less than 10 cm from the start
RouteNear10 == <<1, 1, 1>>

\* and of an area of one cell with a corner 1 m from the start
RouteMetre10 == <<20, 20, 20>>

RouteInit ==
  /\ DirIdle /\ RunIdle /\ CacheEmpty /\ TurnIdle /\ SectorIdle /\ CaptureIdle
  /\ gpc = "call"
  /\ \/ /\ spacing = FHalf
        /\ \E s \in RouteSizes10 : width = FTenths(s[1]) /\ length = FTenths(s[2])
        /\ \E p \in RouteGoals10 : goal = <<FTenths(p[1]), FTenths(p[2])>>
     \/ /\ spacing = FTenths(RouteFar10[3])
        /\ width = FTenths(RouteFar10[1]) /\ length = FTenths(RouteFar10[2])
        /\ goal = <<FTenths(RouteFar10[1] \div 2), FZero>>
     \/ /\ spacing = FTenths(RouteNear10[3])
        /\ width = FTenths(RouteNear10[1]) /\ length = FTenths(RouteNear10[2])
        /\ goal = <<FTenths(RouteNear10[1]), FZero>>
     \/ /\ spacing = FTenths(RouteMetre10[3])
        /\ width = FTenths(RouteMetre10[1]) /\ length = FTenths(RouteMetre10[2])
        /\ goal = <<FTenths(RouteMetre10[1] \div 2), FZero>>
  /\ built = NoGrid
  /\ ppc = "call"
  /\ start = Origin
  /\ found = NoPath
  /\ epc = "plan"
  /\ route = NoRoute
  /\ drone = <<>>

\* build_grid_x_graph or find_path raises
RouteRaises ==
  /\ epc = "plan" /\ gpc = "done"
  /\ IF built.ok THEN ppc = "done" /\ ~found.ok ELSE TRUE
  /\ epc' = "raised"
  /\ UNCHANGED <<route, drone, turnVars, sectorVars, captureVars, gridVars, dirVars, pathVars, runVars, depthVars>>

\* position = start; heading = 0.0; i = 1
RouteBegin ==
  /\ epc = "plan" /\ ppc = "done" /\ found.ok
  /\ route' = [path |-> found.path, i |-> 1, position |-> start, heading |-> FZero,
               shifts |-> 0]
  /\ epc' = "loop"
  /\ UNCHANGED <<drone, turnVars, sectorVars, captureVars, gridVars, dirVars, pathVars, runVars, depthVars>>

\* while i < len(path)
Enter ==
  /\ epc = "loop"
  /\ epc' = IF route.i < Len(route.path) THEN "try" ELSE "returned"
  /\ UNCHANGED <<route, drone, turnVars, sectorVars, captureVars, gridVars, dirVars, pathVars, runVars, depthVars>>

\* the commands given when the fail-th of ops raises (0: none does)
Flown(ops, fail) == SubSeq(ops, 1, IF fail = 0 THEN Len(ops) ELSE fail)

\* position, heading, path, proceed = m.values, and i += 1 if proceed
Unpacked(m) ==
  [path |-> m.values[3],
   i |-> IF m.values[4] THEN route.i + 1 ELSE route.i,
   position |-> m.values[1],
   heading |-> m.values[2],
   shifts |-> IF m.values[4] THEN route.shifts ELSE route.shifts + 1]

\* the try block with the result m of move_toward_with_depth: a drone
\* command that raises, an exception of move_toward_with_depth and a tuple
\* of two values all end in the except clause
Tried(m, fail) ==
  /\ drone' = Flown(m.ops, fail)
  /\ IF fail > 0 \/ ~m.ok \/ Len(m.values) # 4
     THEN epc' = "except" /\ route' = route
     ELSE epc' = "loop" /\ route' = Unpacked(m)

Attempt ==
  /\ epc = "try"
  /\ \E capture \in IF route.shifts < MaxShifts THEN Captures ELSE {NoCapture, "center"},
        side \in {"left", "right"} :
       \E m \in {move_toward_with_depth(route.path[route.i + 1], route.position,
                                        route.path, route.heading, capture, side)} :
         \E fail \in 0..Len(m.ops) : Tried(m, fail)
  /\ UNCHANGED <<turnVars, sectorVars, captureVars, gridVars, dirVars, pathVars, runVars, depthVars>>

\* except Exception: the error is printed and the loop goes on
Caught ==
  /\ epc = "except"
  /\ epc' = "loop"
  /\ UNCHANGED <<route, drone, turnVars, sectorVars, captureVars, gridVars, dirVars, pathVars, runVars, depthVars>>

RouteNext ==
  \/ Build \/ FindPath
  \/ RouteRaises \/ RouteBegin \/ Enter \/ Attempt \/ Caught

SpecRoute == RouteInit /\ [][RouteNext]_vars

\* the except clause ends and the loop goes on
SpecRouteFair == SpecRoute /\ WF_vars(Caught)

\* the try block when the capture gives center and no command raises
AttemptClear ==
  /\ epc = "try"
  /\ \E side \in {"left", "right"} :
       \E m \in {move_toward_with_depth(route.path[route.i + 1], route.position,
                                        route.path, route.heading, "center", side)} :
         Tried(m, 0)
  /\ UNCHANGED <<turnVars, sectorVars, captureVars, gridVars, dirVars, pathVars, runVars, depthVars>>

ClearNext ==
  \/ Build \/ FindPath
  \/ RouteRaises \/ RouteBegin \/ Enter \/ AttemptClear \/ Caught

\* the try block ends, by the assignment of what is returned or in the
\* except clause
TryEnds == epc = "try" /\ epc' \in {"loop", "except"}

\* execute_simple_route when every capture gives center and no command
\* raises; every step of the loop is taken in the end
SpecRouteClear ==
  /\ RouteInit /\ [][ClearNext]_vars
  /\ WF_vars(Enter) /\ WF_epc(TryEnds) /\ WF_vars(Caught)

\* run() and execute_simple_route, each from its own initial states
HeadingInit == RunInit \/ RouteInit

HeadingNext == RunNext \/ RouteNext

SpecHeading == HeadingInit /\ [][HeadingNext]_vars

\* rotate_toward and execute_simple_route, each from its own initial states
CommandInit == TurnInit \/ RouteInit

CommandNext == RotateToward \/ RouteNext

SpecCommand == CommandInit /\ [][CommandNext]_vars

(***************************************************************************)
(* safe_depth_capture(drone, depth_context, max_retries) of                *)
(* drone_navigator.py.  capture_and_compute_depth and the drone are the    *)
(* environment: a capture returns a frame and its depth or raises, and     *)
(* get_battery answers or raises.  shot.log holds the calls made so far,   *)
(* each [call, ok, frame], and shot.ret what the function returned.        *)
(***************************************************************************)
\* max_retries is 0 to MaxRetries; the default is 3
MaxRetries == 4

\* the frames a capture may return
CaptureFrames == {"frame a", "frame b"}

NoneNone == [kind |-> "tuple", rgb |-> "None", depth |-> "None"]

\* capture_and_compute_depth returned frame f: return rgb_frame, depth
Captured(s, f) ==
  [s EXCEPT !.log = Append(@, [call |-> "capture", ok |-> TRUE, frame |-> f]),
            !.ret = [kind |-> "tuple", rgb |-> f, depth |-> f]]

\* it raised: except Exception as e
CaptureFailed(s) ==
  [s EXCEPT !.log = Append(@, [call |-> "capture", ok |-> FALSE, frame |-> "None"])]

\* a keep-alive that raises ends the call
KeptAliveOrAborted(s, ok) ==
  IF ok /\ s.attempt < s.max_retries - 1
  THEN [s EXCEPT !.log = Append(@, [call |-> "get_battery", ok |-> ok, frame |-> "None"]),
                 !.attempt = @ + 1]
  ELSE [s EXCEPT !.log = Append(@, [call |-> "get_battery", ok |-> ok, frame |-> "None"]),
                 !.ret = NoneNone]

\* drone.get_battery() in its own try, then the next attempt or
\* return None, None after the last one
KeptAlive(s, ok) ==
  IF s.attempt < s.max_retries - 1
  THEN [s EXCEPT !.log = Append(@, [call |-> "get_battery", ok |-> ok, frame |-> "None"]),
                 !.attempt = @ + 1]
  ELSE [s EXCEPT !.log = Append(@, [call |-> "get_battery", ok |-> ok, frame |-> "None"]),
                 !.ret = NoneNone]

CaptureInit ==
  /\ GridIdle /\ DirIdle /\ PathIdle /\ RunIdle /\ CacheEmpty
  /\ TurnIdle /\ RouteIdle /\ SectorIdle
  /\ cpc = "for"
  /\ \E n \in 0..MaxRetries : shot = [NoShot EXCEPT !.max_retries = n]

CaptureUnchanged ==
  UNCHANGED <<turnVars, routeVars, sectorVars, gridVars, dirVars, pathVars, runVars, depthVars>>

\* for attempt in range(max_retries); a loop that ends returns None
NextAttempt ==
  /\ cpc = "for"
  /\ IF shot.attempt < shot.max_retries
     THEN cpc' = "try" /\ shot' = shot
     ELSE cpc' = "returned" /\ shot' = [shot EXCEPT !.ret.kind = "None"]
  /\ CaptureUnchanged

\* the try block
CaptureAndCompute ==
  /\ cpc = "try"
  /\ \/ \E f \in CaptureFrames : cpc' = "returned" /\ shot' = Captured(shot, f)
     \/ cpc' = "except" /\ shot' = CaptureFailed(shot)
  /\ CaptureUnchanged

\* the except block
KeepAlive ==
  /\ cpc = "except"
  /\ \E ok \in BOOLEAN : shot' = KeptAlive(shot, ok)
  /\ cpc' = IF shot'.ret = NoneNone THEN "returned" ELSE "for"
  /\ CaptureUnchanged

CaptureNext == NextAttempt \/ CaptureAndCompute \/ KeepAlive

SpecCapture == CaptureInit /\ [][CaptureNext]_vars

(***************************************************************************)
(* safe_direction(depth_norm, near_thresh, min_free) of post_processor.py. *)
(* A frame is [h, w, bg, pix] as for choose_safe_direction; its values and *)
(* near_thresh are whole numbers of some unit, and min_free and the mean   *)
(* of a sector are floats.                                                 *)
(***************************************************************************)
ValueAt(f, y, x) == IF <<y, x>> \in DOMAIN f.pix THEN f.pix[<<y, x>>] ELSE f.bg

\* the rows y0 to y1 - 1 for y0, y1 = int(h * 0.35), int(h * 0.65)
BandRows(h) ==
  PyInt(FMul(FFromInt(h), FFromRatio(35, 100)))
    ..(PyInt(FMul(FFromInt(h), FFromRatio(65, 100))) - 1)

\* thirds = [(0, w // 3), (w // 3, 2 * w // 3), (2 * w // 3, w)]
Third(name, w) ==
  IF name = "left" THEN <<0, w \div 3>>
  ELSE IF name = "center" THEN <<w \div 3, (2 * w) \div 3>>
  ELSE <<(2 * w) \div 3, w>>

\* the pixels of band[:, x0:x1]
Sector(h, w, name) == BandRows(h) \X (Third(name, w)[1]..(Third(name, w)[2] - 1))

\* free = ~(band >= near_thresh), with the threshold itself counted free
IsFreeAtThreshold(v, near_thresh) == ~(v > near_thresh)

\* free = ~(band >= near_thresh)
IsFree(v, near_thresh) == ~(v >= near_thresh)

FreeIn(f, S, near_thresh) == {p \in S : IsFree(ValueAt(f, p[1], p[2]), near_thresh)}

\* float(sector.mean()) if sector.size else 0.0, for the pixels S of the sector
MeanOf(f, S, near_thresh) ==
  IF S = {} THEN FZero
  ELSE FDiv(FFromInt(Cardinality(FreeIn(f, S, near_thresh))), FFromInt(Cardinality(S)))

free_ratios(f, name, near_thresh) == MeanOf(f, Sector(f.h, f.w, name), near_thresh)

safe_direction(depth_norm, near_thresh, min_free) ==
  IF FLe(min_free, free_ratios(depth_norm, "center", near_thresh)) THEN "center"
  ELSE IF FLe(min_free, free_ratios(depth_norm, "right", near_thresh)) THEN "right"
  ELSE IF FLe(min_free, free_ratios(depth_norm, "left", near_thresh)) THEN "left"
  ELSE "none"

\* The frames scanned have 1, 2, 4 or 7 rows and up to MaxCols columns, with
\* one value off the band and any values on it; min_free is in hundredths.
MaxCols == 4

ScanRows == {1, 2, 4, 7}

ScanMinFree100 == {0, 50, 65, 100}

ScanFrames ==
  UNION {{[h |-> h, w |-> w, bg |-> b, pix |-> f] :
            b \in 0..1, f \in [BandRows(h) \X (0..(w - 1)) -> 0..1]} :
          h \in ScanRows, w \in 1..MaxCols}

ScanInit ==
  /\ GridIdle /\ DirIdle /\ PathIdle /\ RunIdle /\ CacheEmpty /\ TurnIdle /\ RouteIdle
  /\ CaptureIdle
  /\ spc = "call"
  /\ \E f \in ScanFrames, t \in 1..MaxThreshold, m \in ScanMinFree100 :
       scan = [depth_norm |-> f, near_thresh |-> t, min_free |-> m]
  /\ safe = "not called"

SafeDirection ==
  /\ spc = "call"
  /\ spc' = "done"
  /\ safe' = safe_direction(scan.depth_norm, scan.near_thresh, FFromRatio(scan.min_free, 100))
  /\ UNCHANGED <<scan, turnVars, routeVars, captureVars, gridVars, dirVars, pathVars, runVars, depthVars>>

SpecScan == ScanInit /\ [][SafeDirection]_vars

(***************************************************************************)
(* Claims about build_grid_x_graph.                                        *)
(***************************************************************************)
ExpNx == PyRound(FDiv(width, spacing))
ExpNy == PyRound(FDiv(length, spacing))

\* C1: for spacing > 0 and width, length >= spacing the call returns a graph
\* with (Nx+1)(Ny+1) + Nx*Ny nodes and 4*Nx*Ny + Nx*(Ny+1) + Ny*(Nx+1) edges,
\* Nx = round(width/spacing), Ny = round(length/spacing).
C1_NodeAndEdgeCounts ==
  (gpc = "done" /\ FLt(FZero, spacing) /\ FLe(spacing, width) /\ FLe(spacing, length))
  => /\ built.ok
     /\ Len(built.nodes) = (ExpNx + 1) * (ExpNy + 1) + ExpNx * ExpNy
     /\ Cardinality(built.G.ids) = (ExpNx + 1) * (ExpNy + 1) + ExpNx * ExpNy
     /\ Cardinality(built.G.edges)
          = 4 * ExpNx * ExpNy + ExpNx * (ExpNy + 1) + ExpNy * (ExpNx + 1)

\* the nodes joined to a node of S by an edge, and so on
RECURSIVE ReachFrom(_, _)
ReachFrom(G, S) ==
  LET T == S \cup {n \in G.ids : \E m \in S : {m, n} \in G.edges}
  IN  IF T = S THEN S ELSE ReachFrom(G, T)

Connected(G) == \A n \in G.ids : ReachFrom(G, {n}) = G.ids

\* C2: every graph the call returns is connected.
C2_Connected == (gpc = "done" /\ built.ok) => Connected(built.G)

\* a returned graph of several cells that lacks some corner-to-corner edge
C2_Witness ==
  /\ gpc = "done" /\ built.ok
  /\ ExpNx * ExpNy >= 2
  /\ Cardinality(built.G.edges)
       < 4 * ExpNx * ExpNy + ExpNx * (ExpNy + 1) + ExpNy * (ExpNx + 1)

\* x is not a number, or x <= 0
Invalid(x) == IF IsStr(x) THEN TRUE ELSE FLe(x, FZero)

\* C17: the call fails with an error and returns no graph whenever spacing,
\* width or length is zero or negative and whenever one of them is not a
\* number.
C17_InvalidArguments ==
  (gpc = "done" /\ (Invalid(spacing) \/ Invalid(width) \/ Invalid(length)))
  => ~built.ok

\* the call has failed on a str beside two valid numbers, and on a zero
\* length beside a valid width and spacing larger than it
C17_Witness ==
  /\ gpc = "done" /\ ~built.ok
  /\ \/ IsStr(length) /\ ~Invalid(width) /\ ~Invalid(spacing)
     \/ length = FZero /\ ~Invalid(width) /\ ~Invalid(spacing) /\ FLt(spacing, width)

\* C18: with positive arguments the call returns a graph only when width and
\* length are each at least spacing; it fails when spacing is larger than
\* one of them.
C18_SpacingWithinArea ==
  (gpc = "done" /\ built.ok) => (FLe(spacing, width) /\ FLe(spacing, length))

(***************************************************************************)
(* Claims about find_path.  Distances are those math.hypot gives, and the  *)
(* total weight of a path is the sum of its edge weights taken from the    *)
(* start on, in floats.                                                    *)
(***************************************************************************)
\* the distance from each node (in the order of nodes) to the point p
Distances(p) ==
  AsList([t \in 1..Len(built.nodes) |->
            FHypot(FSub(built.G.coord[built.nodes[t].val][1], p[1]),
                   FSub(built.G.coord[built.nodes[t].val][2], p[2]))])

\* entry t of nodes is nearest, and is before every other entry as near
NearestFirst(dist, t) ==
  /\ \A u \in 1..Len(dist) : FLe(dist[t], dist[u])
  /\ \A u \in 1..Len(dist) : dist[u] = dist[t] => t <= u

\* the node the point p snaps to
Nearest(p) ==
  CHOOSE n \in built.G.ids :
    \E dist \in {Distances(p)} :
      \E t \in 1..Len(dist) : built.nodes[t].val = n /\ NearestFirst(dist, t)

\* the node at the coordinates xy
NodeAt(xy) == CHOOSE n \in built.G.ids : built.G.coord[n] = xy

\* the sum of the weights of the first k edges of the node path
RECURSIVE WeightUpTo(_, _)
WeightUpTo(ns, k) ==
  IF k = 0 THEN FZero
  ELSE FAdd(WeightUpTo(ns, k - 1), built.G.wt[{ns[k], ns[k + 1]}])

Unreached == [sgn |-> 0, exp |-> 0, man |-> <<0>>]

\* one round of relaxation of the distances d from the source (d[n + 1] for
\* node n, Unreached where no path is known yet)
Relaxed(d) ==
  AsList([i \in 1..Len(d) |->
    LET cand == {d[i]} \cup {FAdd(d[m + 1], built.G.wt[{m, i - 1}]) :
                   m \in {m \in built.G.ids : {m, i - 1} \in built.G.edges
                                               /\ d[m + 1] # Unreached}}
        real == cand \ {Unreached}
    IN  IF real = {} THEN Unreached
        ELSE CHOOSE x \in real : \A y \in real : FLe(x, y)])

\* the least total weight of a path from the source to each node
RECURSIVE Settled(_)

\* d2 is d after one more round
SettledAfter(d, d2) == IF d2 = d THEN d ELSE Settled(d2)

Settled(d) == SettledAfter(d, Relaxed(d))

LeastWeights(source) ==
  Settled(AsList([i \in 1..(SetMax(built.G.ids) + 1) |->
                    IF i - 1 = source THEN FZero ELSE Unreached]))

IsShortest(ns) ==
  /\ \A k \in 1..(Len(ns) - 1) : {ns[k], ns[k + 1]} \in built.G.edges
  /\ WeightUpTo(ns, Len(ns) - 1) = LeastWeights(ns[1])[ns[Len(ns)] + 1]

\* the node path of the waypoints
NodesOf(wps) == AsList([k \in 1..Len(wps) |-> NodeAt(wps[k])])

\* C3: without a depth frame find_path returns waypoints that begin at the
\* node start snaps to and end at the node goal snaps to, with an edge
\* between every two consecutive ones and of least total weight; when both
\* points snap to one node the path is that node alone.
C3_ShortestPath ==
  (ppc = "done" /\ depth_map = NoDepth)
  => /\ found.ok
     /\ Len(found.path) >= 1
     /\ \E s \in {Nearest(start)}, g \in {Nearest(goal)} :
          /\ found.path[1] = built.G.coord[s]
          /\ found.path[Len(found.path)] = built.G.coord[g]
          /\ s = g => Len(found.path) = 1
     /\ \E ns \in {NodesOf(found.path)} : IsShortest(ns)

\* a path of four waypoints or more, on a grid of several cells
C3_Witness ==
  /\ ppc = "done" /\ depth_map = NoDepth
  /\ found.ok
  /\ Len(found.path) >= 4

\* C4: start and goal each snap to a node at the least distance from the
\* point, the first inserted of those equally near.
C4_Snapping ==
  (ppc = "done" /\ depth_map = NoDepth /\ found.ok)
  => /\ \E dist \in {Distances(start)} :
          \E t \in 1..Len(dist) :
            /\ NearestFirst(dist, t)
            /\ found.path[1] = built.G.coord[built.nodes[t].val]
     /\ \E dist \in {Distances(goal)} :
          \E t \in 1..Len(dist) :
            /\ NearestFirst(dist, t)
            /\ found.path[Len(found.path)] = built.G.coord[built.nodes[t].val]

\* several nodes are equally near to start, and it snapped to the first
C4_Witness ==
  /\ ppc = "done" /\ depth_map = NoDepth /\ found.ok
  /\ \E dist \in {Distances(start)} :
       /\ Cardinality({t \in 1..Len(dist) : \A u \in 1..Len(dist) : FLe(dist[t], dist[u])}) >= 2
       /\ \E t \in 1..Len(dist) :
            /\ NearestFirst(dist, t)
            /\ found.path[1] = built.G.coord[built.nodes[t].val]

\* C19: when the nodes start and goal snap to are in different connected
\* components of the graph, find_path fails with the no-path error and
\* returns no path.
C19_NoPath ==
  (ppc = "done" /\ Nearest(goal) \notin ReachFrom(built.G, {Nearest(start)}))
  => (~found.ok /\ found.err = "NetworkXNoPath")

\* find_path has failed on a graph that has an edge, but none that leads
\* from the start to the goal
C19_Witness ==
  /\ ppc = "done" /\ ~found.ok
  /\ built.G.edges # {}
  /\ Nearest(goal) \notin ReachFrom(built.G, {Nearest(start)})

(***************************************************************************)
(* Claims about choose_safe_direction.  A sample is clear when the depth   *)
(* of the frame at its pixel is at least the threshold.                    *)
(***************************************************************************)
Samples == {"left", "center", "right", "top", "bottom"}

Sides == {"left", "right", "top", "bottom"}

\* the pixel of each sample in a frame of h rows and w columns
SamplePixels(h, w) == [name \in Samples |-> to_pixel(SampleOffset(name), h, w)]

\* the samples that are clear, given their pixels <<x, y>>
ClearAt(px) ==
  {name \in Samples :
     (IF <<px[name][2], px[name][1]>> \in DOMAIN depth_map.pix
      THEN depth_map.pix[<<px[name][2], px[name][1]>>]
      ELSE depth_map.bg) >= threshold}

ClearSamples ==
  CHOOSE c \in {ClearAt(px) : px \in {SamplePixels(depth_map.h, depth_map.w)}} : TRUE

\* the five samples are five different pixels
SamplesApart ==
  \A px \in {SamplePixels(depth_map.h, depth_map.w)} :
    \A a, b \in Samples : a # b => px[a] # px[b]

CenterClearRule(clear) == "center" \in clear => verdict.dir = "center"

\* C5: if the center sample is clear the verdict is center, whatever the
\* clearance of the other four samples.
C5_CenterClear == dpc = "done" => CenterClearRule(ClearSamples)

\* the center clear and every side blocked
C5_Witness ==
  /\ dpc = "done" /\ SamplesApart
  /\ ClearSamples = {"center"}
  /\ verdict.dir = "center"

SoleClearRule(clear) ==
  ("center" \notin clear /\ Cardinality(clear) = 1)
  => \/ clear = {"left"} /\ verdict.dir = "left"
     \/ clear = {"right"} /\ verdict.dir = "right"
     \/ clear = {"top"} /\ verdict.dir = "top"
     \/ clear = {"bottom"} /\ verdict.dir = "bottom"

\* C6: if the center sample is blocked and exactly one sample is clear, the
\* verdict is the direction of that sample.
C6_SoleClear == dpc = "done" => SoleClearRule(ClearSamples)

\* only the left sample clear
C6_Witness ==
  /\ dpc = "done"
  /\ ClearSamples = {"left"}
  /\ verdict.dir = "left"

\* C7: if the center sample is blocked and the other four are clear, the
\* verdict is up.
C7_OnlyCenterBlocked ==
  (dpc = "done" /\ ClearSamples = Sides) => verdict.dir = "top"

\* the four sides clear around a blocked center, at five different pixels
C7_Witness ==
  /\ dpc = "done" /\ SamplesApart
  /\ ClearSamples = Sides
  /\ verdict.dir = "top"

\* C8: if no sample is clear the verdict is block.
C8_NoneClear ==
  (dpc = "done" /\ ClearSamples = {}) => verdict.dir = "block"

SeveralClearRule(clear) ==
  ("center" \notin clear /\ Cardinality(clear) >= 2 /\ clear # Sides)
  => IF "top" \notin clear /\ "bottom" \notin clear THEN verdict.dir = "right"
     ELSE IF "top" \in clear THEN verdict.dir = "top"
     ELSE IF "right" \in clear THEN verdict.dir = "right"
     ELSE IF "left" \in clear THEN verdict.dir = "left"
     ELSE verdict.dir = "bottom"

\* C9: if the center sample is blocked, two or more samples are clear and
\* not all four sides are: the verdict is right when up and down are both
\* blocked, and otherwise the first clear sample of up, right, left, down.
C9_SeveralClear == dpc = "done" => SeveralClearRule(ClearSamples)

\* left and down clear, the others blocked: left comes before down
C9_Witness ==
  /\ dpc = "done"
  /\ ClearSamples = {"left", "bottom"}
  /\ verdict.dir = "left"


(***************************************************************************)
(* Claims about run().                                                     *)
(***************************************************************************)
MotionCalls ==
  {"move_up", "move_down", "rotate_clockwise", "rotate_counter_clockwise",
   "move_forward"}

\* the places of land among the calls run() has made
Lands == {i \in 1..Len(calls) : calls[i] = "land"}

\* C10: run() issues land at most once, and exactly once in a run that
\* returns; it issues it only once the path is empty; no climb, descend,
\* rotate or forward command follows it; and the stop signal of the depth
\* provider is set only after it, and is set when run() returns.
C10_LandOnce ==
  /\ Cardinality(Lands) <= 1
  /\ Lands # {} => path = <<>>
  /\ \A i \in Lands : \A j \in (i + 1)..Len(calls) : calls[j] \notin MotionCalls
  /\ depth_stop_event => Lands # {}
  /\ rpc = "returned" => Cardinality(Lands) = 1 /\ depth_stop_event

\* run() has flown forward, landed, set the stop signal and returned
C10_Witness ==
  /\ rpc = "returned"
  /\ depth_stop_event
  /\ \E i \in 1..Len(calls) : calls[i] = "move_forward"
  /\ calls[Len(calls)] = "land"


\* run() has stopped: it has returned, or an exception has left it
Stopped == rpc \in {"returned", "raised"}

\* takeoff has been issued and has not raised
Airborne == Len(calls) >= 2 /\ calls[1] = "takeoff"

\* C11: whenever run() stops after takeoff has been issued, by exhausting
\* the path or because a drone command or a replanning call raises, a land
\* command has been issued before it stops.
C11_LandBeforeStop == (Stopped /\ Airborne) => Lands # {}


\* the calls made in the step
NewCalls == SubSeq(calls', Len(calls) + 1, Len(calls'))

\* the step issues the drone command op
Issues(op) == \E i \in 1..Len(NewCalls) : NewCalls[i] = op

\* the step handles a down verdict that would go below the floor
DownAtFloor ==
  /\ rpc = "chosen" /\ chosen.dir = DOWN
  /\ FLt(FSub(altitude, ALTITUDE_STEP), MIN_ALTITUDE)

\* C12: the tracked altitude is never below MIN_ALTITUDE; a descend command
\* is issued only when altitude - ALTITUDE_STEP >= MIN_ALTITUDE; and a down
\* verdict that would go below the floor issues no descend command, keeps
\* the altitude and replaces the path by a plan from the current position.
C12_AltitudeFloor ==
  [][/\ FLe(MIN_ALTITUDE, altitude) /\ FLe(MIN_ALTITUDE, altitude')
     /\ Issues("move_down") => FLe(MIN_ALTITUDE, FSub(altitude, ALTITUDE_STEP))
     /\ DownAtFloor =>
          /\ NewCalls = <<>>
          /\ altitude' = altitude
          /\ rpc' = "loop"
          /\ path' = find_path(built.G, built.nodes, current_pos, goal, NoDepth, 0).path]_vars

\* after a descent to the last altitude above the floor, a down verdict is
\* to be handled
C12_Witness ==
  /\ rpc = "chosen" /\ chosen.dir = DOWN
  /\ FLt(FSub(altitude, ALTITUDE_STEP), MIN_ALTITUDE)
  /\ \E i \in 1..Len(calls) : calls[i] = "move_down"


(***************************************************************************)
(* Claims about the depth cache.                                           *)
(***************************************************************************)
\* the cache holds nothing, or an array, a timestamp and metadata that the
\* same fetch wrote
CacheWhole ==
  IF latest_depth = NoArray
  THEN latest_timestamp = NoTimestamp /\ latest_meta = NoMeta
  ELSE /\ arrays[latest_depth].by = latest_timestamp.by
       /\ latest_meta.by = latest_timestamp.by

\* C13: under every interleaving of the two callers of fetch_depth_once with
\* get_latest_depth and get_depth_age, the reader sees no frame, or a frame
\* and the timestamp written by the same fetch: while it holds the lock the
\* cache is never partly updated, the timestamp it reads belongs to the
\* frame it found, and the frame it returns belongs to that timestamp.
C13_ConsistentRead ==
  /\ lock = "reader" => CacheWhole
  /\ (reader.depth # NoArray /\ reader.pc \in {"copy", "unlock", "idle"}) =>
       arrays[reader.depth].by = reader.ts.by
  /\ reader.result.kind = "array" => reader.result.by = reader.ts.by

\* the reader returns the frame of the second fetch with its timestamp while
\* another call of fetch_depth_once waits for the lock with its frame
C13_Witness ==
  /\ reader.pc = "unlock" /\ reader.result.kind = "array"
  /\ reader.result.by = 2 /\ reader.ts.by = 2
  /\ \E p \in Fetchers : fetcher[p].pc = "lock"


\* get_latest_depth has returned
Got ==
  /\ reader.op = "get_latest_depth"
  /\ reader.pc \in {"unlock", "idle"}
  /\ reader.result.kind \in {"None", "array"}

\* C14: get_latest_depth(max_age) returns None exactly when no frame is
\* cached or now - timestamp > max_age; otherwise it returns an array of its
\* own with the content of the most recently cached frame: changing the
\* returned array leaves the cached frame as its fetch loaded it, and
\* replacing the cached frame leaves the returned array as it was.
C14_FreshCopy ==
  /\ Got =>
       (reader.result.kind = "None"
          <=> (reader.depth = NoArray \/ reader.at - reader.ts.t > reader.max_age))
  /\ (Got /\ reader.result.kind = "array") =>
       /\ reader.result.array # latest_depth
       /\ reader.result.frame = reader.result.by
       /\ reader.pc = "unlock" => reader.result.by = arrays[latest_depth].by
       /\ arrays[reader.result.array].frame \in {reader.result.frame, Scribbled}
       /\ arrays[reader.result.array].by = reader.result.by
  /\ latest_depth # NoArray => arrays[latest_depth].frame = arrays[latest_depth].by

\* the caller has changed the frame it was returned, and a later fetch has
\* replaced the cached frame
C14_Witness ==
  /\ Got /\ reader.pc = "idle" /\ reader.result.kind = "array"
  /\ arrays[reader.result.array].frame = Scribbled
  /\ latest_depth # NoArray /\ arrays[latest_depth].by # reader.result.by


(***************************************************************************)
(* Claims about rotate_toward.                                             *)
(***************************************************************************)
TurnCalled == tpc = "done" /\ turn.target # turn.pos

\* (bearing - heading) mod 360
ForwardDelta == FMod(FSub(Bearing(Toward(turn.target, turn.pos)), turn.heading), F360)

AtMostOneRotation == Len(turned.ops) <= 1

HalfTurnAtMost == \A k \in 1..Len(turned.ops) : turned.ops[k][2] <= 180

ShorterSide ==
  \A k \in 1..Len(turned.ops) :
    turned.ops[k][1] = (IF FLt(FFromInt(180), ForwardDelta)
                        THEN "rotate_counter_clockwise" ELSE "rotate_clockwise")

HeadingIsBearing ==
  turned.ops # <<>> => turned.heading = Bearing(Toward(turn.target, turn.pos))

\* C15: for a heading in [0, 360) and a target that is not the position,
\* rotate_toward issues at most one rotation, of 180 degrees at most,
\* counter-clockwise when (bearing - heading) mod 360 exceeds 180 and
\* clockwise otherwise, and after a rotation the heading it returns is the
\* bearing of the target.
C15_RotateToward ==
  TurnCalled =>
    AtMostOneRotation /\ HalfTurnAtMost /\ ShorterSide /\ HeadingIsBearing



(***************************************************************************)
(* Claims about execute_simple_route.                                      *)
(***************************************************************************)
\* C16: a waypoint whose handling raises is retried a bounded number of
\* times and then the route ends, so in every execution the except clause
\* is entered finitely often: from some point on it is never entered again.
C16_BoundedRetry == <>[](epc # "except")


(***************************************************************************)
(* Claims about safe_direction.                                            *)
(***************************************************************************)
\* the pixels of a third of the band, and those of them below near_thresh
SectorOf(name) == Sector(scan.depth_norm.h, scan.depth_norm.w, name)

BelowIn(S) == {p \in S : ValueAt(scan.depth_norm, p[1], p[2]) < scan.near_thresh}

\* the fraction of free pixels of the sector S, 0 for an empty sector, is at
\* least min_free
Enough(S) ==
  IF S = {} THEN 0 >= scan.min_free
  ELSE 100 * Cardinality(BelowIn(S)) >= scan.min_free * Cardinality(S)

Qualifies(name) == Enough(SectorOf(name))

\* C20: safe_direction returns the first of center, right and left whose
\* third of the central band has a fraction of free pixels (value below
\* near_thresh) of at least min_free, an empty sector counting as 0, and
\* none when no sector qualifies.
C20_SafeDirection ==
  spc = "done" =>
    safe = (IF Qualifies("center") THEN "center"
            ELSE IF Qualifies("right") THEN "right"
            ELSE IF Qualifies("left") THEN "left"
            ELSE "none")

\* the call has passed over a center third that is not empty and has too few
\* free pixels, and a pixel at the threshold itself lies in the third it chose
C20_Witness ==
  /\ spc = "done" /\ safe = "right"
  /\ SectorOf("center") # {}
  /\ scan.min_free = 65
  /\ \E p \in SectorOf("right") : ValueAt(scan.depth_norm, p[1], p[2]) = scan.near_thresh

(***************************************************************************)
(* Claims about find_path with a depth frame.                              *)
(***************************************************************************)
\* the waypoints wps lead from the node start snaps to to the node goal
\* snaps to along a path of least total weight
ShortestWaypoints(wps) ==
  /\ wps[1] = built.G.coord[Nearest(start)]
  /\ wps[Len(wps)] = built.G.coord[Nearest(goal)]
  /\ \E ns \in {NodesOf(wps)} : IsShortest(ns)

\* C21: with a depth frame find_path returns the shortest path without its
\* first waypoint when the center sample of the frame is blocked and the
\* whole shortest path when it is clear; the waypoints left keep their order
\* and the goal node is the last of them.
C21_PruneLeading ==
  (ppc = "done" /\ depth_map # NoDepth /\ found.ok)
  => IF "center" \in ClearSamples
     THEN Len(found.path) >= 1 /\ ShortestWaypoints(found.path)
     ELSE ShortestWaypoints(<<built.G.coord[Nearest(start)]>> \o found.path)

\* the center sample is blocked and others are clear, and two waypoints are
\* left of a path of three
C21_Witness ==
  /\ ppc = "done" /\ depth_map # NoDepth /\ found.ok
  /\ ClearSamples # {} /\ "center" \notin ClearSamples
  /\ Len(found.path) = 2
  /\ found.path[1] # built.G.coord[Nearest(start)]

(***************************************************************************)
(* Claims about the advance step of execute_simple_route.                  *)
(***************************************************************************)
\* an iteration of execute_simple_route that commands forward motion and
\* unpacks what move_toward_with_depth returns
RouteAdvance ==
  /\ epc = "try" /\ epc' = "loop"
  /\ drone' # <<>> /\ drone'[Len(drone')][1] = "move_forward"

Centimetre == FFromRatio(1, 100)

Span(a, b) == FHypot(FSub(b[1], a[1]), FSub(b[2], a[2]))

\* position is moved by cm centimetres, to the centimetre
MovedBy(from, to, cm) ==
  FLe(FAbs(FSub(Span(from, to), FDiv(FFromInt(cm), FFromInt(100)))), Centimetre)

\* C22: after an advance step the position is the previous position moved by
\* the commanded forward distance, the index advances only if that position
\* is within epsilon of the waypoint, and a waypoint further than the cap of
\* 500 cm remains the target of the next iteration.
C22_AdvanceStep ==
  [][RouteAdvance =>
       /\ MovedBy(route.position, route'.position, drone'[Len(drone')][2])
       /\ (route'.i # route.i
             => FLt(Span(route'.position, route.path[route.i + 1]), FFromRatio(1, 10)))
       /\ (FLt(FFromInt(5), Span(route.position, route.path[route.i + 1]))
             => route'.i = route.i /\ route'.path = route.path)]_vars


(***************************************************************************)
(* Claims about the forward commands of run().                             *)
(***************************************************************************)
Rotations == {"rotate_clockwise", "rotate_counter_clockwise"}

\* C23: every forward command of run() is issued along the heading the
\* center verdict was evaluated for: the iteration that issues move_forward
\* issues no rotation command after its verdict.
C23_ForwardAsEvaluated ==
  [][(rpc = "advance" /\ Issues("move_forward"))
       => \A i \in 1..Len(NewCalls) : NewCalls[i] \notin Rotations]_vars


(***************************************************************************)
(* Claims about the left and right verdicts of run().                      *)
(***************************************************************************)
\* the step handles a left or right verdict
LeftRight == rpc = "chosen" /\ chosen.dir \in {LEFT, RIGHT}

\* one rotation command, of the side of the verdict, no forward command, and
\* the heading a quarter turn to that side of what it was
QuarterTurn ==
  /\ Cardinality({i \in 1..Len(NewCalls) : NewCalls[i] \in Rotations}) = 1
  /\ NewCalls[1] = IF chosen.dir = LEFT THEN "rotate_counter_clockwise"
                   ELSE "rotate_clockwise"
  /\ ~Issues("move_forward")
  /\ rpc' # "raised"
       => /\ rpc' = "turned"
          /\ Dot(heading, heading') = FZero
          /\ Dot(heading', heading') = Dot(heading, heading)
          /\ IF chosen.dir = LEFT THEN FLt(FZero, Wedge(heading, heading'))
             ELSE FLt(Wedge(heading, heading'), FZero)

\* the waypoints wps are a plan from the point pos to the goal
PlanFrom(pos, wps) ==
  /\ Len(wps) >= 1
  /\ wps[1] = built.G.coord[Nearest(pos)]
  /\ wps[Len(wps)] = built.G.coord[Nearest(goal)]
  /\ \E ns \in {NodesOf(wps)} : IsShortest(ns)

\* after the new verdict: toward the unchanged head waypoint if it is center,
\* else no command and a plan from the current position
Decided ==
  IF chosen.dir = CENTER
  THEN rpc' = "advance" /\ path' = path /\ next_wp' = path[1]
  ELSE /\ calls' = calls /\ current_pos' = current_pos
       /\ rpc' = "loop"
       /\ PlanFrom(current_pos, path')

\* the iteration ends with nothing changed
Skipped ==
  /\ rpc' = "loop"
  /\ UNCHANGED <<path, current_pos, heading, altitude, calls>>

\* C24 as stated: on a left or right verdict run() issues one rotation of 90
\* degrees to that side and turns the heading by 90 degrees, then evaluates
\* a fresh frame, and proceeds toward the unchanged head waypoint on center
\* or else issues no forward command and replans from the current position.
C24_QuarterTurnThenVerdict ==
  [][/\ LeftRight => QuarterTurn
     /\ rpc = "turned" => rpc' = "rechosen"
     /\ rpc = "rechosen" => Decided]_vars

\* C24 amended: as stated whenever a frame is there after the rotation; when
\* get_latest_depth() returns None the iteration ends with no verdict, no
\* command and the path unchanged.
C24_QuarterTurnThenFrame ==
  [][/\ LeftRight => QuarterTurn
     /\ rpc = "turned" => (rpc' = "rechosen" \/ Skipped)
     /\ rpc = "rechosen" => Decided]_vars

\* away from the start, a rotation and a verdict other than center have left
\* a plan that begins at the current position
C24_Witness ==
  /\ rpc = "loop" /\ Len(calls) >= 2
  /\ calls[Len(calls)] = FETCH /\ calls[Len(calls) - 1] \in Rotations
  /\ current_pos # start
  /\ path # <<>> /\ path[1] = current_pos


(***************************************************************************)
(* Claims about the clearance map of choose_safe_direction.                *)
(***************************************************************************)
\* C25: whenever choose_safe_direction returns a verdict other than block,
\* the clearance map it returns marks the sample of that direction clear.
C25_VerdictIsClear ==
  (dpc = "done" /\ verdict.dir # BLOCK) => verdict.status[verdict.dir]


(***************************************************************************)
(* Claims about the termination of execute_simple_route.                   *)
(***************************************************************************)
\* every waypoint after the first has been the target of a step that advanced
Completed == epc = "returned" /\ route.i = Len(route.path)

\* C26: for valid arguments, if every depth capture gives center and no
\* command fails, execute_simple_route, once it has planned the path,
\* returns after advancing through every waypoint of it.
C26_ClearRouteCompletes == epc = "loop" ~> Completed


(***************************************************************************)
(* Claims about an iteration of run() without a frame.                     *)
(***************************************************************************)
\* the iteration begins and ends without a verdict: get_latest_depth()
\* returned None
NoFrameIteration == rpc = "loop" /\ rpc' = "loop"

\* C27: an iteration of the loop of run() in which there is no fresh frame
\* issues one fetch-once request and no drone command, and leaves the path,
\* the position, the heading and the altitude as they were.
C27_FetchAndRetry ==
  [][NoFrameIteration
       => /\ NewCalls = <<FETCH>>
          /\ UNCHANGED <<path, current_pos, heading, altitude>>]_vars

\* there was no frame in the iteration after a forward command, on the way
C27_Witness ==
  /\ rpc = "loop" /\ path # <<>> /\ Len(calls) >= 4
  /\ calls[Len(calls)] = FETCH /\ calls[Len(calls) - 1] = "move_forward"
  /\ current_pos # start


(***************************************************************************)
(* Claims about the depth refresh before an advance of run().              *)
(***************************************************************************)
\* C28: before advancing run() requests a depth refresh exactly when the
\* heading is within the facing tolerance of 10 degrees of the bearing from
\* the current position to the head waypoint, a waypoint at the position
\* counting as faced.
C28_RefreshWhenFacing ==
  [][rpc = "advance"
       => (Issues(FETCH) <=> is_facing_target(heading, next_wp, current_pos))]_vars


(***************************************************************************)
(* Claims about the heading of execute_simple_route.                       *)
(***************************************************************************)
\* the angle of a command, clockwise positive
Clockwise(op) ==
  IF op[1] = "rotate_clockwise" THEN op[2]
  ELSE IF op[1] = "rotate_counter_clockwise" THEN 0 - op[2]
  ELSE 0

RECURSIVE NetRotation(_)
NetRotation(ops) ==
  IF ops = <<>> THEN 0 ELSE Clockwise(Head(ops)) + NetRotation(Tail(ops))

\* hdg turned by deg degrees, in [0, 360)
TurnedBy(hdg, deg) ==
  FMod(IF deg < 0 THEN FSub(hdg, FFromInt(0 - deg)) ELSE FAdd(hdg, FFromInt(deg)), F360)

\* C29: in execute_simple_route the heading is the initial heading plus the
\* net sum of the rotation angles commanded, modulo 360: every waypoint step,
\* successful or failed, changes the heading by the angles it commanded.
C29_HeadingIsCommanded ==
  [][epc = "try"
       => FMod(route'.heading, F360) = TurnedBy(route.heading, NetRotation(drone'))]_vars


(***************************************************************************)
(* Claims about the subscribers of fetch_depth_once.                       *)
(***************************************************************************)
\* C30: under every interleaving of the calls of fetch_depth_once, each
\* subscriber callback is given a frame and the metadata written by the
\* fetch that loaded that frame.
C30_MetaOfSameFetch ==
  \A i \in 1..Len(notified) :
    /\ arrays[notified[i].depth_map].by = notified[i].fetch
    /\ notified[i].meta # NoMeta
    /\ notified[i].meta.by = notified[i].fetch


(***************************************************************************)
(* Claims about the range of the heading.                                  *)
(***************************************************************************)
\* 0 <= hdg < 360
InCircle(hdg) == FLe(FZero, hdg) /\ FLt(hdg, F360)

Times(n, x) == FMul(FFromInt(n), x)

TimesAndHalf(n, x) == FMul(FAdd(FFromInt(n), FHalf), x)

\* the corners, then the centers, are the entries of nodes in row-major
\* order, the grid beginning half at the left of the y axis
PlacedFrom(nodes, Nx, Ny, half) ==
  /\ Len(nodes) = (Nx + 1) * (Ny + 1) + Nx * Ny
  /\ \A i \in 0..Nx, j \in 0..Ny :
       nodes[i * (Ny + 1) + j + 1].key = <<FSub(Times(i, spacing), half), Times(j, spacing)>>
  /\ \A i \in 0..(Nx - 1), j \in 0..(Ny - 1) :
       nodes[(Nx + 1) * (Ny + 1) + i * Ny + j + 1].key
         = <<FSub(TimesAndHalf(i, spacing), half), TimesAndHalf(j, spacing)>>

\* no two entries have one coordinate, entry t has the index t - 1, and the
\* graph has these indices and coordinates
Indexed(nodes, G) ==
  /\ \A t, u \in 1..Len(nodes) : nodes[t].key = nodes[u].key => t = u
  /\ \A t \in 1..Len(nodes) : nodes[t].val = t - 1
  /\ G.ids = 0..(Len(nodes) - 1)
  /\ \A t \in 1..Len(nodes) : G.coord[t - 1] = nodes[t].key

\* C32 as stated: the corners are at (i * spacing - width / 2, j * spacing)
\* and the centers at the midpoints of the cells, no two nodes share a
\* coordinate, the indices are 0, 1, ... in insertion order with the corners
\* first, and a second build gives the same indices.
C32_PlacedByWidth ==
  (gpc = "done" /\ built.ok)
  => /\ PlacedFrom(built.nodes, ExpNx, ExpNy, FDiv(width, FTwo))
     /\ Indexed(built.nodes, built.G)
     /\ build_grid_x_graph(width, length, spacing).nodes = built.nodes

\* C32 amended: the same with the corners at
\* (i * spacing - actual_width / 2, j * spacing) for
\* actual_width = Nx * spacing, whenever the call returns a graph.
C32_PlacedByActualWidth ==
  (gpc = "done" /\ built.ok)
  => /\ PlacedFrom(built.nodes, ExpNx, ExpNy, FDiv(Times(ExpNx, spacing), FTwo))
     /\ Indexed(built.nodes, built.G)
     /\ build_grid_x_graph(width, length, spacing).nodes = built.nodes

\* a grid of several cells each way for a width that is not Nx * spacing
C32_Witness ==
  /\ gpc = "done" /\ built.ok
  /\ ExpNx >= 2 /\ ExpNy >= 2
  /\ width # Times(ExpNx, spacing)


(***************************************************************************)
(* Claims about the edges of build_grid_x_graph.                           *)
(***************************************************************************)
\* the index of corner (i, j) and of the center of cell (i, j)
CornerId(Ny, i, j) == i * (Ny + 1) + j

CenterId(Nx, Ny, i, j) == (Nx + 1) * (Ny + 1) + i * Ny + j

CellCornerIds(Ny, i, j) ==
  {CornerId(Ny, i, j), CornerId(Ny, i + 1, j), CornerId(Ny, i + 1, j + 1), CornerId(Ny, i, j + 1)}

\* u and v are corners next to each other in a row or a column of the
\* grid, and v is one spacing east or north of u
OneSpacingApart(G, Ny, u, v) ==
  /\ \/ v = u + (Ny + 1)
     \/ v = u + 1 /\ u % (Ny + 1) # Ny
  /\ \/ G.coord[v] = <<FAdd(G.coord[u][1], spacing), G.coord[u][2]>>
     \/ G.coord[v] = <<G.coord[u][1], FAdd(G.coord[u][2], spacing)>>

CornerEdges(G, Nx, Ny) == {e \in G.edges : \A n \in e : n < (Nx + 1) * (Ny + 1)}

\* C33: in a built graph every center has exactly four neighbours, the
\* corners of its own cell, and every edge between corners joins two
\* corners one spacing apart along one axis.
C33_SpokesAndLattice ==
  (gpc = "done" /\ built.ok)
  => /\ \A i \in 0..(ExpNx - 1), j \in 0..(ExpNy - 1) :
          /\ {m \in built.G.ids : {CenterId(ExpNx, ExpNy, i, j), m} \in built.G.edges}
               = CellCornerIds(ExpNy, i, j)
          /\ Len(built.G.adj[CenterId(ExpNx, ExpNy, i, j)]) = 4
     /\ \A e \in CornerEdges(built.G, ExpNx, ExpNy) :
          \E u, v \in e : OneSpacingApart(built.G, ExpNy, u, v)

\* a graph of several cells each way with edges between corners
C33_Witness ==
  /\ gpc = "done" /\ built.ok
  /\ ExpNx >= 2 /\ ExpNy >= 2
  /\ \E e, f \in CornerEdges(built.G, ExpNx, ExpNy) :
       /\ \E u \in e : u + 1 \in e
       /\ \E u \in f : u + ExpNy + 1 \in f


(***************************************************************************)
(* Claims about to_pixel.                                                  *)
(***************************************************************************)
\* clip(round((o * 0.5 + 0.5) * (n - 1)), 0, n - 1) for one axis of n pixels
NearestOnAxis(o, n) ==
  LET r == PyRound(FMul(FAdd(FMul(o, FHalf), FHalf), FFromInt(n - 1)))
  IN  IF r < 0 THEN 0 ELSE IF r > n - 1 THEN n - 1 ELSE r

\* C34: the pixel read for each sample has the column
\* clip(round((ox * 0.5 + 0.5) * (w - 1)), 0, w - 1) and the row
\* clip(round((oy * 0.5 + 0.5) * (h - 1)), 0, h - 1), the pixel nearest to
\* the offset position.
C34_ReadsNearestPixel ==
  dpc = "done"
  => \A name \in Samples :
       SamplePixels(depth_map.h, depth_map.w)[name]
         = <<NearestOnAxis(SampleOffset(name)[1], depth_map.w),
             NearestOnAxis(SampleOffset(name)[2], depth_map.h)>>


(***************************************************************************)
(* Claims about the commands of rotate_toward and move_toward_with_depth.  *)
(***************************************************************************)
\* the angle between the heading and the bearing of the target: the turn
\* clockwise or, past 180 degrees, the turn counter-clockwise
TurnAsked(t) == IF FLt(FFromInt(180), t) THEN FSub(F360, t) ELSE t

SmallTurn(target, pos, hdg) ==
  \/ Degenerate(Toward(target, pos))
  \/ FLe(TurnAsked(TurnOf(Bearing(Toward(target, pos)), hdg)), FFromInt(5))

\* the rotations of ops have whole angles of 0 to 180 degrees
RotationsInRange(ops) ==
  \A k \in 1..Len(ops) : ops[k][1] \in Rotations => ops[k][2] \in 0..180

\* the forward commands of ops have the distance of a move of dist metres
ForwardsInRange(ops, dist) ==
  \A k \in 1..Len(ops) :
    ops[k][1] = "move_forward"
      => /\ ops[k][2] = Min2(PyInt(FMul(FFromInt(100), dist)), 500)
         /\ ops[k][2] > 10 /\ ops[k][2] <= 500
         /\ dist = FFromInt(1) => ops[k][2] = 100

\* C35: a forward command of move_toward_with_depth carries
\* min(floor(100 * dist), 500) cm, more than 10 and at most 500, and 100 for
\* a move of 1 m; a rotation command of rotate_toward carries a whole angle
\* of 0 to 180 degrees; a turn of 5 degrees or less gives no rotation
\* command and leaves the heading as it was.
C35_CommandsInRange ==
  [][/\ tpc' = "done"
          => /\ RotationsInRange(turned'.ops)
             /\ SmallTurn(turn.target, turn.pos, turn.heading)
                  => turned'.ops = <<>> /\ turned'.heading = turn.heading
     /\ epc = "try"
          => /\ RotationsInRange(drone')
             /\ ForwardsInRange(drone', Span(route.path[route.i + 1], route.position))
             /\ (epc' = "loop"
                 /\ ~FLt(Span(route.path[route.i + 1], route.position), FFromRatio(1, 10))
                 /\ SmallTurn(route.path[route.i + 1], route.position, route.heading))
                  => /\ \A k \in 1..Len(drone') : drone'[k][1] \notin Rotations
                     /\ route'.heading = route.heading]_vars

\* a rotation and a forward command of one step of the route
C35_Witness ==
  /\ epc = "loop"
  /\ Len(drone) = 2
  /\ drone[1][1] \in Rotations /\ drone[1][2] \in 6..180
  /\ drone[2] = <<"move_forward", 100>>

\* a turn of five degrees to the left that gives no command
C35_WitnessTurn ==
  /\ tpc = "done"
  /\ ~Degenerate(Toward(turn.target, turn.pos))
  /\ TurnOf(Bearing(Toward(turn.target, turn.pos)), turn.heading) = FFromInt(355)
  /\ turned.ops = <<>>


(***************************************************************************)
(* Claims about safe_depth_capture.                                        *)
(***************************************************************************)
CapturesOf(log) == {k \in 1..Len(log) : log[k].call = "capture"}

FailedCaptures(log) == {k \in CapturesOf(log) : ~log[k].ok}

KeepAlivesOf(log) == {k \in 1..Len(log) : log[k].call = "get_battery"}

\* C36: for max_retries >= 1 there are at most max_retries captures, none
\* after one that succeeded, whose frame and depth are returned; the result
\* is (None, None) exactly when max_retries captures failed; and every failed
\* capture is followed by one battery query, which whether it fails or not is
\* followed by the next capture unless the captures are used up.
C36_RetriesAndKeepAlive ==
  shot.max_retries >= 1
  => /\ Cardinality(CapturesOf(shot.log)) <= shot.max_retries
     /\ \A k \in CapturesOf(shot.log) :
          shot.log[k].ok
            => /\ k = Len(shot.log)
               /\ cpc = "returned"
               /\ shot.ret = [kind |-> "tuple", rgb |-> shot.log[k].frame,
                               depth |-> shot.log[k].frame]
     /\ cpc = "returned"
          => /\ shot.ret = NoneNone
                  <=> Cardinality(FailedCaptures(shot.log)) = shot.max_retries
             /\ shot.ret # NoneNone => shot.log[Len(shot.log)].ok
     /\ \A k \in FailedCaptures(shot.log) :
          IF k = Len(shot.log) THEN cpc = "except" ELSE k + 1 \in KeepAlivesOf(shot.log)
     /\ \A k \in KeepAlivesOf(shot.log) :
          /\ k - 1 \in FailedCaptures(shot.log)
          /\ IF k = Len(shot.log)
             THEN cpc = "returned"
                    => Cardinality(CapturesOf(shot.log)) = shot.max_retries
             ELSE k + 1 \in CapturesOf(shot.log)

\* a capture that succeeds after a capture that failed and a battery query
\* that failed
C36_Witness ==
  /\ cpc = "returned"
  /\ shot.max_retries >= 2
  /\ \E k \in KeepAlivesOf(shot.log) : ~shot.log[k].ok /\ shot.log[k + 1].ok


(***************************************************************************)
(* Claims about the result of fetch_depth_once.                            *)
(***************************************************************************)
\* the subscribers called by fetch k, in order
CalledBy(k, log) ==
  [t \in 1..Len(SelectSeq(log, LAMBDA e : e.fetch = k)) |->
     SelectSeq(log, LAMBDA e : e.fetch = k)[t].cb]

\* a call begins and does not get a frame
FetchFails ==
  /\ fetches' = fetches + 1
  /\ \A p \in Fetchers : fetcher'[p].pc = "lock" => fetcher[p].pc = "lock"

\* the call of p ends
FetchEnds(p) == fetcher[p].pc \notin {"idle"} /\ fetcher'[p].pc = "idle"

\* C37: a call that fails returns False, leaves the cached frame, timestamp
\* and metadata as they were and calls no subscriber; a call that got a
\* frame returns True, and by then has called every subscriber in turn,
\* whether callbacks raised or not.
C37_FailureAndSuccess ==
  [][/\ FetchFails
          => /\ \E p \in Fetchers : fetcher[p].pc = "idle" /\ fetcher'[p].ret = "False"
             /\ UNCHANGED <<latest_depth, latest_timestamp, latest_meta, notified>>
             /\ latest_timestamp'.by # fetches' /\ latest_meta'.by # fetches'
             /\ \A t \in 1..Len(notified') : notified'[t].fetch # fetches'
     /\ \A p \in Fetchers :
          FetchEnds(p)
            => /\ fetcher'[p].ret = "True"
               /\ CalledBy(fetcher[p].k, notified') = Subscribers]_vars

\* one call has failed and another has returned True after its first
\* callback raised and its second was called
C37_Witness ==
  /\ \E p, q \in Fetchers : fetcher[p].ret = "False" /\ fetcher[q].ret = "True"
  /\ \E t \in 1..(Len(notified) - 1) :
       /\ notified[t].raises /\ notified[t].cb = Subscribers[1]
       /\ notified[t + 1].fetch = notified[t].fetch
       /\ notified[t + 1].cb = Subscribers[2]

=============================================================================
